---------------------------- MODULE Spec2Model ----------------------------
(***************************************************************************)
(* Model of the notion-bot document-to-chunk pipeline (Chunker), the sync  *)
(* endpoint (POST /sync with its background task) and the RAG answer flow  *)
(* (RAGChain behind POST /chat), the page loader (NotionLoader) and the    *)
(* image annotation (ImageProcessor).                                      *)
(*                                                                         *)
(* Strings are sequences of one-character strings, so that len, slicing,   *)
(* strip and concatenation are computed as Python computes them.  A Python *)
(* Optional value is a sequence of length at most one: << >> is None and   *)
(* <<v>> is the value v.                                                   *)
(***************************************************************************)
EXTENDS Integers, Sequences, FiniteSets, TLC

VARIABLES
    \* ---- Chunker (src/src/indexer/chunker.py)
    chunk_size,        \* Chunker.chunk_size
    chunk_overlap,     \* Chunker.chunk_overlap
    page0,             \* the document of the first chunk_page call
    page,              \* argument of the chunk_page call in progress
    pcC,               \* position in chunk_page: idle, loop, scan, done
    sections,          \* chunk_page: sections
    section_index,     \* chunk_page: i of enumerate(sections)
    chunks,            \* chunk_page: chunks
    block_pos,         \* _create_chunks_from_section: blocks of the section consumed
    scan,              \* _create_chunks_from_section: its locals
    split_log,         \* last size-forced split of the section in progress
    first_result,      \* Optional: chunks returned by the first chunk_page call
    between,           \* another document was chunked after the first call
    caller_repeats,    \* the caller goes on calling chunk_page after the first call
    \* ---- sync endpoint (src/src/api/routes/sync.py)
    sync_status,       \* the module global _sync_status
    tasks,             \* background tasks: one record per accepted POST /sync
    index,             \* the ChromaDB collection: chunk id -> chunk
    config,            \* settings: database_id_list, page_id_list
    posts,             \* responses of the POST /sync requests, in arrival order
    post_limit,        \* number of POST /sync requests the clients send
    \* ---- chat endpoint (src/src/api/routes/chat.py, src/src/rag/chain.py)
    chat_request,      \* Optional: the ChatRequest being served last
    search_results,    \* what Retriever.retrieve returned for it
    chat_response,     \* Optional: the ChatResponse returned
    llm_calls,         \* the chat.completions.create calls made for it
    \* ---- loader and image annotation (src/src/notion/loader.py,
    \*      src/src/indexer/image_processor.py)
    loader_call,       \* Optional: the last NotionLoader call, argument and result
    image_call,        \* the process_image call in progress: its locals
    \* ---- settings endpoint (src/src/api/routes/settings.py)
    env_file,          \* the .env file: the values of its three edited keys
    os_environ,        \* os.environ: the same three keys
    settings_response  \* Optional: the SettingsResponse returned last

chunkVars == <<chunk_size, chunk_overlap, page0, page, pcC, sections, section_index,
               chunks, block_pos, scan, split_log, first_result, between,
               caller_repeats>>
syncVars == <<sync_status, tasks, index, config, posts, post_limit>>
chatVars == <<chat_request, search_results, chat_response, llm_calls>>
loadVars == <<loader_call, image_call>>
settingsVars == <<env_file, os_environ, settings_response>>
vars == <<chunkVars, syncVars, chatVars, loadVars, settingsVars>>

---------------------------------------------------------------------------
\* Bounds of the model.

\* Largest number of blocks (at all depths) of a drawn document.
MaxBlocks == 3
\* Deepest nesting of a drawn document (0 = top-level blocks only).
MaxDepth == 2
\* chunk_size is drawn from 1..MaxChunkSize.
MaxChunkSize == 3
\* chunk_overlap is 0 or MaxOverlap.
MaxOverlap == 1
\* Largest number of blocks of a document that is chunked repeatedly.
MaxRepeatBlocks == 2

---------------------------------------------------------------------------
\* Characters and Python string operations.

NL == "\n"
SP == " "
Whitespace == {SP, NL}

\* str.strip() without arguments: is the whole string whitespace?
IsBlank(s) == \A i \in 1..Len(s) : s[i] \in Whitespace

RECURSIVE lstrip(_)
lstrip(s) ==
    IF s # << >> /\ s[1] \in Whitespace THEN lstrip(Tail(s)) ELSE s

RECURSIVE rstrip(_)
rstrip(s) ==
    IF s # << >> /\ s[Len(s)] \in Whitespace
    THEN rstrip(SubSeq(s, 1, Len(s) - 1)) ELSE s

strip(s) == rstrip(lstrip(s))

\* s[-n:] for n > 0: the last n characters, the whole string when it is shorter.
LastChars(s, n) ==
    IF Len(s) <= n THEN s ELSE SubSeq(s, Len(s) - n + 1, Len(s))

\* s.startswith(p)
StartsWith(s, p) == Len(p) <= Len(s) /\ SubSeq(s, 1, Len(p)) = p

\* str(n) for a natural number n.
RECURSIVE Decimal(_)
Decimal(n) ==
    LET d == <<"0", "1", "2", "3", "4", "5", "6", "7", "8", "9">>
    IN  IF n < 10 THEN <<d[n + 1]>> ELSE Decimal(n \div 10) \o <<d[(n % 10) + 1]>>

\* sep.join(parts)
RECURSIVE Join(_, _)
Join(parts, sep) ==
    IF parts = << >> THEN << >>
    ELSE IF Len(parts) = 1 THEN parts[1]
    ELSE parts[1] \o sep \o Join(Tail(parts), sep)

---------------------------------------------------------------------------
\* Data model (src/src/notion/models.py, src/src/indexer/chunker.py).

None == << >>
Some(v) == <<v>>

HEADING_TYPES == {"heading_1", "heading_2", "heading_3"}

ImageInfo(url, local_path, description, caption) ==
    [url |-> url, local_path |-> local_path, description |-> description,
     caption |-> caption]

NotionBlock(id, type, text, image, children) ==
    [id |-> id, type |-> type, text |-> text, image |-> image, children |-> children]

NotionPage(id, title, url, blocks) ==
    [id |-> id, title |-> title, url |-> url, blocks |-> blocks]

Chunk(id, text, pg, image_paths, si) ==
    [id |-> id, text |-> text, page_id |-> pg.id, page_title |-> pg.title,
     page_url |-> pg.url, image_paths |-> image_paths,
     metadata |-> [section_index |-> si]]

\* hashlib.md5(url.encode()).hexdigest()[:16]: a function of the URL alone.
url_hash(url) == <<"md5", url>>

\* _download_image on success: storage_dir / f"{url_hash}{ext}".
LocalPathOf(url) == <<"images", url_hash(url), ".png">>

\* Python truthiness of an Optional[str]: neither None nor "".
Truthy(opt) == opt # None /\ opt[1] # << >>

\* NotionPage.images: pre-order walk collecting every block's image.
RECURSIVE collect_images(_)
collect_images(blocks) ==
    IF blocks = << >> THEN << >>
    ELSE LET b == blocks[1]
         IN  (IF b.image # None THEN <<b.image[1]>> ELSE << >>)
             \o collect_images(b.children) \o collect_images(Tail(blocks))

\* Pre-order, depth-first list of every block of a tree.
RECURSIVE AllBlocks(_)
AllBlocks(blocks) ==
    IF blocks = << >> THEN << >>
    ELSE <<blocks[1]>> \o AllBlocks(blocks[1].children) \o AllBlocks(Tail(blocks))

---------------------------------------------------------------------------
\* Chunker (src/src/indexer/chunker.py).

\* prefix_map of _get_block_text ("*" stands for the bullet character and "+"
\* for the backquote of a code fence)
BlockPrefix(type) ==
    CASE type = "heading_1" -> <<"#", SP>>
      [] type = "heading_2" -> <<"#", "#", SP>>
      [] type = "heading_3" -> <<"#", "#", "#", SP>>
      [] type = "bulleted_list_item" -> <<"*", SP>>
      [] type = "numbered_list_item" -> <<"1", ".", SP>>
      [] type = "quote" -> <<">", SP>>
      [] type = "code" -> <<"+", "+", "+", NL>>
      [] OTHER -> << >>

\* suffix_map of _get_block_text
BlockSuffix(type) ==
    IF type = "code" THEN <<NL, "+", "+", "+">> ELSE << >>

\* The literal that opens an image description line; seven characters, as in
\* the source ("[", four ideographs, ":", " ").
DescriptionOpen == <<"[", "g", "z", "s", "m", ":", SP>>

_get_block_text(block) ==
    LET text_parts ==
            (IF block.text # << >>
             THEN <<BlockPrefix(block.type) \o block.text \o BlockSuffix(block.type)>>
             ELSE << >>)
            \o
            (IF block.image # None /\ Truthy(block.image[1].description)
             THEN <<DescriptionOpen \o block.image[1].description[1] \o <<"]">> >>
             ELSE << >>)
    IN  Join(text_parts, <<NL>>)

_get_block_images(block) ==
    IF block.image # None /\ Truthy(block.image[1].local_path)
    THEN <<block.image[1].local_path[1]>>
    ELSE << >>

\* Faulty variant of SectionBlock: a heading closes the current section also
\* when it is empty.
SectionBlock_AlwaysClose(acc, block) ==
    IF block.type \in HEADING_TYPES
    THEN [sections |-> Append(acc.sections, acc.current_section),
          current_section |-> <<block>>]
    ELSE [acc EXCEPT !.current_section = Append(@, block)]

\* _split_into_sections: the closure process_blocks with its nonlocal state
\* acc = [sections, current_section].
SectionBlock(acc, block) ==
    IF block.type \in HEADING_TYPES
    THEN [sections |-> IF acc.current_section # << >>
                       THEN Append(acc.sections, acc.current_section)
                       ELSE acc.sections,
          current_section |-> <<block>>]
    ELSE [acc EXCEPT !.current_section = Append(@, block)]

RECURSIVE process_blocks(_, _)
RECURSIVE process_children_HeadingsLast(_, _)
RECURSIVE process_children(_, _)
\* Faulty variant of process_children: the non-heading children are appended
\* first, the heading children are processed after them.
process_children_HeadingsLast(acc, children) ==
    LET plain == SelectSeq(children, LAMBDA c : c.type \notin HEADING_TYPES)
        headings == SelectSeq(children, LAMBDA c : c.type \in HEADING_TYPES)
    IN  process_blocks([acc EXCEPT !.current_section = @ \o plain], headings)

\* Lines 67-72: the children of a block.
process_children(acc, children) ==
    IF children = << >> THEN acc
    ELSE LET child == children[1]
             acc1 == IF child.type \notin HEADING_TYPES
                     THEN [acc EXCEPT !.current_section = Append(@, child)]
                     ELSE process_blocks(acc, <<child>>)
         IN  process_children(acc1, Tail(children))

process_blocks(acc, blocks) ==
    IF blocks = << >> THEN acc
    ELSE LET block == blocks[1]
             acc1 == SectionBlock(acc, block)
             acc2 == IF block.children # << >>
                     THEN process_children(acc1, block.children)
                     ELSE acc1
         IN  process_blocks(acc2, Tail(blocks))

_split_into_sections(blocks) ==
    LET acc == process_blocks([sections |-> << >>, current_section |-> << >>], blocks)
    IN  IF acc.current_section # << >>
        THEN Append(acc.sections, acc.current_section)
        ELSE acc.sections

\* f"{page.id}_{section_index}_{chunk_index}"
ChunkId(page_id, si, ci) ==
    page_id \o <<"_">> \o Decimal(si) \o <<"_">> \o Decimal(ci)

\* _create_chunks_from_section, lines 89-92: the locals before the loop.
ScanInit ==
    [chunks |-> << >>, current_text |-> << >>, current_images |-> << >>,
     chunk_index |-> 0]

\* Faulty variant of Appended: the block text is appended without the
\* newline.
Appended_NoNewline(current_text, block_text) == current_text \o block_text

\* current_text + "\n" + block_text if current_text else block_text
Appended(current_text, block_text) ==
    IF current_text # << >> THEN current_text \o <<NL>> \o block_text ELSE block_text

\* Faulty variant of ScanImageBlock: the image list is not emptied after the
\* flush, so the paths are carried into the following chunks.
ScanImageBlock_KeepsImages(st, block_text, block_images, pg, si) ==
    LET combined_text == Appended(st.current_text, block_text)
        combined_images == st.current_images \o block_images
    IN  [chunks |-> Append(st.chunks,
                           Chunk(ChunkId(pg.id, si, st.chunk_index),
                                 strip(combined_text), pg, combined_images, si)),
         current_text |-> << >>,
         current_images |-> combined_images,
         chunk_index |-> st.chunk_index + 1]

\* Faulty variant of ScanImageBlock: the block's text and paths are added to
\* the buffers and no chunk is emitted at the image block.
ScanImageBlock_Accumulates(st, block_text, block_images, pg, si) ==
    [st EXCEPT !.current_text = Appended(st.current_text, block_text),
               !.current_images = st.current_images \o block_images]

\* The image branch of the loop body (lines 99-118).
ScanImageBlock(st, block_text, block_images, pg, si) ==
    LET combined_text == Appended(st.current_text, block_text)
        combined_images == st.current_images \o block_images
        emit == ~IsBlank(combined_text) \/ combined_images # << >>
    IN  [chunks |-> IF emit
                    THEN Append(st.chunks,
                                Chunk(ChunkId(pg.id, si, st.chunk_index),
                                      strip(combined_text), pg, combined_images, si))
                    ELSE st.chunks,
         current_text |-> << >>,
         current_images |-> << >>,
         chunk_index |-> IF emit THEN st.chunk_index + 1 ELSE st.chunk_index]

\* Faulty variant of ScanTextBlock: the new buffer is seeded with the block's
\* text alone, without the overlap.
ScanTextBlock_NoOverlap(st, block_text, pg, si, size, overlap) ==
    LET new_text == Appended(st.current_text, block_text)
        emit == ~IsBlank(st.current_text)
    IN  IF Len(new_text) > size
        THEN [chunks |-> IF emit
                         THEN Append(st.chunks,
                                     Chunk(ChunkId(pg.id, si, st.chunk_index),
                                           strip(st.current_text), pg,
                                           st.current_images, si))
                         ELSE st.chunks,
              current_text |-> block_text,
              current_images |-> << >>,
              chunk_index |-> IF emit THEN st.chunk_index + 1 ELSE st.chunk_index]
        ELSE [st EXCEPT !.current_text = new_text]

\* Faulty variant of ScanTextBlock: chunk_index is not incremented after the
\* chunk of a forced split is appended.
ScanTextBlock_NoIncrement(st, block_text, pg, si, size, overlap) ==
    LET new_text == Appended(st.current_text, block_text)
        emit == ~IsBlank(st.current_text)
    IN  IF Len(new_text) > size
        THEN [chunks |-> IF emit
                         THEN Append(st.chunks,
                                     Chunk(ChunkId(pg.id, si, st.chunk_index),
                                           strip(st.current_text), pg,
                                           st.current_images, si))
                         ELSE st.chunks,
              current_text |-> IF overlap > 0 /\ st.current_text # << >>
                               THEN LastChars(st.current_text, overlap)
                                    \o <<NL>> \o block_text
                               ELSE block_text,
              current_images |-> << >>,
              chunk_index |-> st.chunk_index]
        ELSE [st EXCEPT !.current_text = new_text]

\* Faulty variant of ScanTextBlock: the size test looks at the block's text
\* instead of the buffer with the block's text appended.
ScanTextBlock_TestsBlockAlone(st, block_text, pg, si, size, overlap) ==
    LET new_text == Appended(st.current_text, block_text)
        emit == ~IsBlank(st.current_text)
    IN  IF Len(block_text) > size
        THEN [chunks |-> IF emit
                         THEN Append(st.chunks,
                                     Chunk(ChunkId(pg.id, si, st.chunk_index),
                                           strip(st.current_text), pg,
                                           st.current_images, si))
                         ELSE st.chunks,
              current_text |-> IF overlap > 0 /\ st.current_text # << >>
                               THEN LastChars(st.current_text, overlap)
                                    \o <<NL>> \o block_text
                               ELSE block_text,
              current_images |-> << >>,
              chunk_index |-> IF emit THEN st.chunk_index + 1 ELSE st.chunk_index]
        ELSE [st EXCEPT !.current_text = new_text]

\* The text-only branch of the loop body (lines 119-146).
ScanTextBlock(st, block_text, pg, si, size, overlap) ==
    LET new_text == Appended(st.current_text, block_text)
        emit == ~IsBlank(st.current_text)
    IN  IF Len(new_text) > size
        THEN [chunks |-> IF emit
                         THEN Append(st.chunks,
                                     Chunk(ChunkId(pg.id, si, st.chunk_index),
                                           strip(st.current_text), pg,
                                           st.current_images, si))
                         ELSE st.chunks,
              current_text |-> IF overlap > 0 /\ st.current_text # << >>
                               THEN LastChars(st.current_text, overlap)
                                    \o <<NL>> \o block_text
                               ELSE block_text,
              current_images |-> << >>,
              chunk_index |-> IF emit THEN st.chunk_index + 1 ELSE st.chunk_index]
        ELSE [st EXCEPT !.current_text = new_text]

\* One iteration of "for block in section" (lines 94-146).
ScanBlock(st, block, pg, si, size, overlap) ==
    LET block_text == _get_block_text(block)
        block_images == _get_block_images(block)
    IN  IF block_images # << >>
        THEN ScanImageBlock(st, block_text, block_images, pg, si)
        ELSE ScanTextBlock(st, block_text, pg, si, size, overlap)

\* Faulty variant of ScanFinish: the final flush tests "if current_text"
\* instead of "if current_text.strip()".
ScanFinish_NoStrip(st, pg, si) ==
    IF st.current_text # << >>
    THEN Append(st.chunks,
                Chunk(ChunkId(pg.id, si, st.chunk_index), strip(st.current_text),
                      pg, st.current_images, si))
    ELSE st.chunks

\* Faulty variant of ScanFinish: the buffer left at the end of the loop is
\* not flushed.
ScanFinish_NoFlush(st, pg, si) == st.chunks

\* Lines 148-161: the final flush; the chunks of the section.
ScanFinish(st, pg, si) ==
    IF ~IsBlank(st.current_text)
    THEN Append(st.chunks,
                Chunk(ChunkId(pg.id, si, st.chunk_index), strip(st.current_text),
                      pg, st.current_images, si))
    ELSE st.chunks

RECURSIVE ScanBlocks(_, _, _, _, _, _)
ScanBlocks(st, blocks, pg, si, size, overlap) ==
    IF blocks = << >> THEN st
    ELSE ScanBlocks(ScanBlock(st, blocks[1], pg, si, size, overlap),
                    Tail(blocks), pg, si, size, overlap)

_create_chunks_from_section(section, pg, si, size, overlap) ==
    ScanFinish(ScanBlocks(ScanInit, section, pg, si, size, overlap), pg, si)

RECURSIVE ChunkSections(_, _, _, _, _)
ChunkSections(secs, i, pg, size, overlap) ==
    IF i >= Len(secs) THEN << >>
    ELSE _create_chunks_from_section(secs[i + 1], pg, i, size, overlap)
         \o ChunkSections(secs, i + 1, pg, size, overlap)

\* Chunker.chunk_page as a function of the page and the Chunker's two fields.
chunk_page(pg, size, overlap) ==
    ChunkSections(_split_into_sections(pg.blocks), 0, pg, size, overlap)

---------------------------------------------------------------------------
\* Documents drawn for the Chunker: block trees as they are after parsing and
\* image annotation (ImageProcessor.process_image sets local_path, then
\* description, or leaves both unset when the download fails).

Text(type, text) == [type |-> type, text |-> text, image |-> None]

Image(url, ok, description) ==
    [type |-> "image", text |-> << >>,
     image |-> Some(ImageInfo(url,
                              IF ok THEN Some(LocalPathOf(url)) ELSE None,
                              IF ok THEN Some(description) ELSE None,
                              Some(<< >>)))]

\* Two image URLs.
U1 == <<"u", "1">>
U2 == <<"u", "2">>

BlockKinds ==
    { Text("paragraph", <<"a">>),
      Text("paragraph", <<"b", "c">>),
      Text("paragraph", <<SP>>),
      Text("heading_1", <<"h">>),
      Image(U1, TRUE, <<"d">>),
      Image(U2, TRUE, << >>),
      Image(U1, FALSE, << >>) }

\* Forests of exactly n blocks nested at most d deep, before ids are given.
RECURSIVE Forests(_, _)
Forests(n, d) ==
    IF n = 0 THEN { << >> }
    ELSE IF d < 0 THEN { }
    ELSE UNION { { <<[kind |-> k, children |-> kids]>> \o rest :
                       k \in BlockKinds,
                       kids \in Forests(m - 1, d - 1),
                       rest \in Forests(n - m, d) } : m \in 1..n }

\* Block ids: the path of the block in the tree.
RECURSIVE WithIds(_, _)
WithIds(forest, path) ==
    [i \in 1..Len(forest) |->
        NotionBlock(path \o <<i>>, forest[i].kind.type, forest[i].kind.text,
                    forest[i].kind.image,
                    WithIds(forest[i].children, path \o <<i>>))]

Documents(max) ==
    UNION { { WithIds(f, << >>) : f \in Forests(n, MaxDepth) } : n \in 0..max }

\* A second document, chunked between two chunk_page calls on the first.
OtherPage ==
    NotionPage(<<"q">>, "Other", "https://notion.so/q",
               WithIds(<<[kind |-> Text("paragraph", <<"b", "c">>), children |-> << >>],
                         [kind |-> Text("paragraph", <<"a">>), children |-> << >>]>>,
                       << >>))

---------------------------------------------------------------------------
\* Chunker.chunk_page, step by step.

\* The section _create_chunks_from_section is scanning.
CurrentSection == sections[section_index + 1]

\* chunk_page is called (lines 32-38): sections are split, chunks = [].
ChunkPageCall ==
    /\ pcC = "idle" \/ (pcC = "done" /\ caller_repeats)
    /\ \E p \in {page0, OtherPage} :
        /\ pcC = "idle" => p = page0
        /\ page' = p
        /\ sections' = _split_into_sections(p.blocks)
        /\ between' = (between \/ p # page0)
    /\ chunks' = << >>
    /\ section_index' = 0
    /\ pcC' = "loop"
    /\ UNCHANGED <<chunk_size, chunk_overlap, page0, block_pos, scan, split_log,
                   first_result, caller_repeats>>
    /\ UNCHANGED <<syncVars, chatVars, loadVars, settingsVars>>

\* Faulty variant of EnterSection: the text buffer is kept from the section
\* scanned before (as if it were a field of the Chunker).
EnterSection_KeepsBuffer ==
    /\ pcC = "loop"
    /\ section_index < Len(sections)
    /\ scan' = [ScanInit EXCEPT !.current_text = scan.current_text]
    /\ block_pos' = 0
    /\ split_log' = << >>
    /\ pcC' = "scan"
    /\ UNCHANGED <<chunk_size, chunk_overlap, page0, page, sections, section_index,
                   chunks, first_result, between, caller_repeats>>
    /\ UNCHANGED <<syncVars, chatVars, loadVars, settingsVars>>

\* Faulty variant of EnterSection: chunk_index is kept from the section
\* scanned before (a counter of the Chunker instead of a local).
EnterSection_KeepsCounter ==
    /\ pcC = "loop"
    /\ section_index < Len(sections)
    /\ scan' = [ScanInit EXCEPT !.chunk_index = scan.chunk_index]
    /\ block_pos' = 0
    /\ split_log' = << >>
    /\ pcC' = "scan"
    /\ UNCHANGED <<chunk_size, chunk_overlap, page0, page, sections, section_index,
                   chunks, first_result, between, caller_repeats>>
    /\ UNCHANGED <<syncVars, chatVars, loadVars, settingsVars>>

\* _create_chunks_from_section is entered (lines 89-92): fresh locals.
EnterSection ==
    /\ pcC = "loop"
    /\ section_index < Len(sections)
    /\ scan' = ScanInit
    /\ block_pos' = 0
    /\ split_log' = << >>
    /\ pcC' = "scan"
    /\ UNCHANGED <<chunk_size, chunk_overlap, page0, page, sections, section_index,
                   chunks, first_result, between, caller_repeats>>
    /\ UNCHANGED <<syncVars, chatVars, loadVars, settingsVars>>

\* One iteration of the loop over the section's blocks (lines 94-146).
StepBlock ==
    /\ pcC = "scan"
    /\ block_pos < Len(CurrentSection)
    /\ LET block == CurrentSection[block_pos + 1]
           block_text == _get_block_text(block)
           forced == /\ _get_block_images(block) = << >>
                     /\ Len(Appended(scan.current_text, block_text)) > chunk_size
       IN  /\ scan' = ScanBlock(scan, block, page, section_index, chunk_size,
                                chunk_overlap)
           /\ split_log' =
                IF forced
                THEN Append(split_log,
                            [before |-> scan.current_text,
                             block_text |-> block_text,
                             emitted |-> Len(scan'.chunks) > Len(scan.chunks),
                             next |-> Len(scan'.chunks) + 1])
                ELSE split_log
    /\ block_pos' = block_pos + 1
    /\ UNCHANGED <<chunk_size, chunk_overlap, page0, page, pcC, sections,
                   section_index, chunks, first_result, between, caller_repeats>>
    /\ UNCHANGED <<syncVars, chatVars, loadVars, settingsVars>>

\* The loop ends: final flush (lines 148-161), chunks.extend (line 45).
LeaveSection ==
    /\ pcC = "scan"
    /\ block_pos = Len(CurrentSection)
    /\ scan' = [scan EXCEPT !.chunks = ScanFinish(scan, page, section_index)]
    /\ chunks' = chunks \o scan'.chunks
    /\ section_index' = section_index + 1
    /\ pcC' = "loop"
    /\ UNCHANGED <<chunk_size, chunk_overlap, page0, page, sections, block_pos,
                   split_log, first_result, between, caller_repeats>>
    /\ UNCHANGED <<syncVars, chatVars, loadVars, settingsVars>>

\* chunk_page returns chunks (line 47).
ChunkPageReturn ==
    /\ pcC = "loop"
    /\ section_index = Len(sections)
    /\ pcC' = "done"
    /\ first_result' = IF first_result = None THEN Some(chunks) ELSE first_result
    /\ UNCHANGED <<chunk_size, chunk_overlap, page0, page, sections, section_index,
                   chunks, block_pos, scan, split_log, between, caller_repeats>>
    /\ UNCHANGED <<syncVars, chatVars, loadVars, settingsVars>>

NextChunk ==
    \/ ChunkPageCall
    \/ EnterSection
    \/ StepBlock
    \/ LeaveSection
    \/ ChunkPageReturn

---------------------------------------------------------------------------
\* The Notion workspace the sync reads, and the settings.

\* Largest number of POST /sync requests of a behaviour.
MaxPosts == 2
\* Number of POST /sync requests when the runs themselves are examined.
MaxRuns == 1
\* Longest configured list of page ids (settings.page_id_list).
MaxPageIds == 1

\* Settings.chunk_size and Settings.chunk_overlap.
DefaultChunkSize == 1000
DefaultChunkOverlap == 200

PageIds == {"p1", "p2"}

\* NotionClient.get_database_pages: the pages of a database.
get_database_pages(db_id) == IF db_id = "db1" THEN <<"p1">> ELSE << >>

RECURSIVE Flatten(_)
Flatten(lists) ==
    IF lists = << >> THEN << >> ELSE lists[1] \o Flatten(Tail(lists))

\* NotionClient.get_all_pages: database pages, then the configured pages.
get_all_pages(cfg) ==
    Flatten([i \in 1..Len(cfg.database_ids) |-> get_database_pages(cfg.database_ids[i])])
    \o cfg.page_ids

\* NotionLoader.load_page: the parsed page of an id, images not yet processed.
load_page(page_id) ==
    LET leaf(k) == [kind |-> k, children |-> << >>]
        raw(url) == [type |-> "image", text |-> << >>,
                     image |-> Some(ImageInfo(url, None, None, Some(<< >>)))]
    IN  IF page_id = "p1"
        THEN NotionPage(<<"p", "1">>, "One", "https://notion.so/p1",
                        WithIds(<<leaf(Text("heading_1", <<"h">>)),
                                  leaf(Text("paragraph", <<"a">>))>>, << >>))
        ELSE NotionPage(<<"p", "2">>, "Two", "https://notion.so/p2",
                        WithIds(<<[kind |-> Text("paragraph", <<"b", "c">>),
                                   children |-> <<leaf(raw(U1))>>],
                                  leaf(raw(U2)),
                                  leaf(Text("heading_1", <<"h">>))>>, << >>))

\* NotionLoader.load_all_pages
load_all_pages(cfg) ==
    LET raw_pages == get_all_pages(cfg)
    IN  [i \in 1..Len(raw_pages) |-> load_page(raw_pages[i])]

\* What the network does for one image: the download fails, or it succeeds
\* and the description call returns a text, returns no content, or fails.
ImageOutcomes == {"fail", "described", "blank", "describe_fail"}

\* A returned value, or an exception that escapes the call.
Returned(value) == [raised |-> FALSE, value |-> value]
Raised == [raised |-> TRUE, value |-> None]

\* ImageProcessor._download_image (lines 42-64): the path on success; every
\* exception is caught and gives None.
_download_image(url, outcome) ==
    IF outcome = "fail" THEN Returned(None) ELSE Returned(Some(LocalPathOf(url)))

\* Faulty variant of _generate_description: the exception of the description
\* call is not caught.
_generate_description_NoExcept(caption, outcome) ==
    CASE outcome = "described" -> Returned(<<"d">>)
      [] outcome = "blank" -> Returned(<< >>)
      [] OTHER -> Raised

\* ImageProcessor._generate_description (lines 66-105): "content or ''" on
\* success; every exception is caught and gives "caption or ''".
_generate_description(caption, outcome) ==
    CASE outcome = "described" -> Returned(<<"d">>)
      [] outcome = "blank" -> Returned(<< >>)
      [] OTHER -> Returned(IF caption # None THEN caption[1] ELSE << >>)

\* ImageProcessor.process_image (lines 24-40): the image it was given,
\* mutated in place, or the exception that escapes.
process_image(image, outcome) ==
    IF image.url = << >> THEN Returned(image)
    ELSE LET local_path == _download_image(image.url, outcome)
             description == _generate_description(image.caption, outcome)
         IN  IF local_path.raised THEN Raised
             ELSE IF local_path.value = None THEN Returned(image)
             ELSE IF description.raised THEN Raised
             ELSE Returned([image EXCEPT !.local_path = local_path.value,
                                         !.description = Some(description.value)])

\* NotionPage.images as the ids of the blocks that hold the ImageInfo
\* objects, in the order of collect_images.
RECURSIVE image_ids(_)
image_ids(blocks) ==
    IF blocks = << >> THEN << >>
    ELSE LET b == blocks[1]
         IN  (IF b.image # None THEN <<b.id>> ELSE << >>)
             \o image_ids(b.children) \o image_ids(Tail(blocks))

\* The ImageInfo object of the block with the id is replaced by what
\* process_image left of it: the objects are mutated in place, in the tree.
RECURSIVE SetImage(_, _, _)
SetImage(blocks, id, image) ==
    [i \in 1..Len(blocks) |->
        [blocks[i] EXCEPT
            !.image = IF blocks[i].id = id THEN Some(image) ELSE @,
            !.children = SetImage(@, id, image)]]

\* The ImageInfo object held by the block with the id.
ImageOf(blocks, id) ==
    LET holder == SelectSeq(AllBlocks(blocks), LAMBDA b : b.id = id)
    IN  holder[1].image[1]

\* collection.upsert(ids, ...): overwrite by id.
RECURSIVE Upsert(_, _)
Upsert(idx, cs) ==
    IF cs = << >> THEN idx
    ELSE LET c == cs[1]
             ids == DOMAIN idx \cup {c.id}
         IN  Upsert([i \in ids |-> IF i = c.id THEN c ELSE idx[i]], Tail(cs))

\* VectorStore.add_chunks, when embedding and upsert succeed.
add_chunks(idx, cs) == IF cs = << >> THEN idx ELSE Upsert(idx, cs)

\* VectorStore.clear
EmptyIndex == [i \in {} |-> 0]

\* collection.count()
Count(idx) == Cardinality(DOMAIN idx)

---------------------------------------------------------------------------
\* POST /sync and the background task _run_sync.

\* The locals of a _run_sync call: pages as loaded, the number k of pages
\* done, page (Optional, the page of the iteration in progress, whose images
\* process_image mutates; the images of a page already chunked are not read
\* again and are not kept), the number j of its images done, the totals, and
\* the calls made for the page in progress (or just done).
NewTask ==
    [pc |-> "scheduled", pages |-> << >>, k |-> 0, page |-> None, j |-> 0,
     calls |-> << >>, total_chunks |-> 0, total_images |-> 0]

\* "for page in pages": the page of the iteration in progress.
LoopPage(task) == IF task.page # None THEN task.page[1] ELSE task.pages[task.k + 1]

\* A call made by _run_sync for the k-th page: process_image on the ImageInfo
\* of a block, or chunk_page.
Call(symbol, k, image) == [symbol |-> symbol, page |-> k, image |-> image]

\* The calls of the page in progress after one more call; the calls of the
\* page before are forgotten once it was chunked.
Logged(calls, call) ==
    IF calls # << >> /\ calls[Len(calls)].symbol = "chunk_page"
    THEN <<call>> ELSE Append(calls, call)

\* start_sync (lines 77-93), run on the event loop.
start_sync ==
    /\ Len(posts) < post_limit
    /\ IF sync_status.running
       THEN /\ posts' = Append(posts, "running")
            /\ UNCHANGED tasks
       ELSE /\ tasks' = Append(tasks, NewTask)
            /\ posts' = Append(posts, "started")
    /\ UNCHANGED <<sync_status, index, config, post_limit>>
    /\ UNCHANGED <<chunkVars, chatVars, loadVars, settingsVars>>

\* _run_sync begins in a worker thread (lines 28-36).
RunSyncStart(t) ==
    /\ tasks[t].pc = "scheduled"
    /\ sync_status' = [sync_status EXCEPT !.running = TRUE, !.message = "syncing"]
    /\ tasks' = [tasks EXCEPT ![t].pc = "clear"]
    /\ UNCHANGED <<index, config, post_limit, posts>>
    /\ UNCHANGED <<chunkVars, chatVars, loadVars, settingsVars>>

\* vector_store.clear() (line 39)
RunSyncClear(t) ==
    /\ tasks[t].pc = "clear"
    /\ index' = EmptyIndex
    /\ tasks' = [tasks EXCEPT ![t].pc = "load"]
    /\ UNCHANGED <<sync_status, config, post_limit, posts>>
    /\ UNCHANGED <<chunkVars, chatVars, loadVars, settingsVars>>

\* pages = loader.load_all_pages() (line 42); the Notion API may fail.
RunSyncLoad(t) ==
    /\ tasks[t].pc = "load"
    /\ \/ tasks' = [tasks EXCEPT ![t].pc = "pages",
                                 ![t].pages = load_all_pages(config)]
       \/ tasks' = [tasks EXCEPT ![t].pc = "except"]
    /\ UNCHANGED <<sync_status, index, config, post_limit, posts>>
    /\ UNCHANGED <<chunkVars, chatVars, loadVars, settingsVars>>

\* One iteration of "for image in images" (lines 49-51): process_image is
\* called on the next image of page.images and returns.
RunSyncImage(t) ==
    /\ tasks[t].pc = "pages"
    /\ tasks[t].k < Len(tasks[t].pages)
    /\ LET page_ == LoopPage(tasks[t])
           images == image_ids(page_.blocks)
       IN  /\ tasks[t].j < Len(images)
           /\ \E outcome \in ImageOutcomes :
               LET id == images[tasks[t].j + 1]
                   out == process_image(ImageOf(page_.blocks, id), outcome)
               IN  tasks' =
                       IF out.raised
                       THEN [tasks EXCEPT ![t].pc = "except"]
                       ELSE [tasks EXCEPT
                                ![t].page =
                                    Some([page_ EXCEPT !.blocks =
                                              SetImage(@, id, out.value)]),
                                ![t].j = @ + 1,
                                ![t].calls = Logged(@, Call("process_image", tasks[t].k + 1, id))]
    /\ UNCHANGED <<sync_status, index, config, post_limit, posts>>
    /\ UNCHANGED <<chunkVars, chatVars, loadVars, settingsVars>>

\* Faulty variant of RunSyncChunk: the page is chunked without waiting for
\* the loop over its images to end.
RunSyncChunk_Early(t) ==
    /\ tasks[t].pc = "pages"
    /\ tasks[t].k < Len(tasks[t].pages)
    /\ LET page_ == LoopPage(tasks[t])
           images == collect_images(page_.blocks)
           cs == chunk_page(page_, DefaultChunkSize, DefaultChunkOverlap)
       IN  /\ index' = add_chunks(index, cs)
           /\ tasks' = [tasks EXCEPT
                 ![t].k = @ + 1,
                 ![t].page = None,
                 ![t].j = 0,
                 ![t].calls = Logged(@, Call("chunk_page", tasks[t].k + 1, << >>)),
                 ![t].total_images = @ + Len(images),
                 ![t].total_chunks = @ + Len(cs)]
    /\ UNCHANGED <<sync_status, config, post_limit, posts>>
    /\ UNCHANGED <<chunkVars, chatVars, loadVars, settingsVars>>

\* The rest of an iteration of "for page in pages" (lines 52-59), after the
\* loop over the images: chunk_page, then add_chunks; embedding may fail.
RunSyncChunk(t) ==
    /\ tasks[t].pc = "pages"
    /\ tasks[t].k < Len(tasks[t].pages)
    /\ LET page_ == LoopPage(tasks[t])
           images == collect_images(page_.blocks)
           cs == chunk_page(page_, DefaultChunkSize, DefaultChunkOverlap)
       IN  /\ tasks[t].j = Len(images)
           /\ \/ /\ index' = add_chunks(index, cs)
                 /\ tasks' = [tasks EXCEPT
                       ![t].k = @ + 1,
                       ![t].page = None,
                       ![t].j = 0,
                       ![t].calls = Logged(@, Call("chunk_page", tasks[t].k + 1, << >>)),
                       ![t].total_images = @ + Len(images),
                       ![t].total_chunks = @ + Len(cs)]
              \/ /\ cs # << >>
                 /\ tasks' = [tasks EXCEPT
                       ![t].pc = "except",
                       ![t].calls = Logged(@, Call("chunk_page", tasks[t].k + 1, << >>))]
                 /\ UNCHANGED index
    /\ UNCHANGED <<sync_status, config, post_limit, posts>>
    /\ UNCHANGED <<chunkVars, chatVars, loadVars, settingsVars>>

\* The try block ends (lines 61-68): stats and the completion message.
RunSyncStats(t) ==
    /\ tasks[t].pc = "pages"
    /\ tasks[t].k = Len(tasks[t].pages)
    /\ sync_status' = [sync_status EXCEPT
            !.message = "done",
            !.stats = Some([pages |-> Len(tasks[t].pages),
                            chunks |-> tasks[t].total_chunks,
                            images |-> tasks[t].total_images])]
    /\ tasks' = [tasks EXCEPT ![t].pc = "finally_ok"]
    /\ UNCHANGED <<index, config, post_limit, posts>>
    /\ UNCHANGED <<chunkVars, chatVars, loadVars, settingsVars>>

\* Faulty variant of RunSyncExcept: the except clause also drops the stats.
RunSyncExcept_DropsStats(t) ==
    /\ tasks[t].pc = "except"
    /\ sync_status' = [sync_status EXCEPT !.message = "error", !.stats = None]
    /\ tasks' = [tasks EXCEPT ![t].pc = "finally_err"]
    /\ UNCHANGED <<index, config, post_limit, posts>>
    /\ UNCHANGED <<chunkVars, chatVars, loadVars, settingsVars>>

\* except Exception (lines 70-71)
RunSyncExcept(t) ==
    /\ tasks[t].pc = "except"
    /\ sync_status' = [sync_status EXCEPT !.message = "error"]
    /\ tasks' = [tasks EXCEPT ![t].pc = "finally_err"]
    /\ UNCHANGED <<index, config, post_limit, posts>>
    /\ UNCHANGED <<chunkVars, chatVars, loadVars, settingsVars>>

\* Faulty variant of RunSyncFinally: the running flag is reset at the end of
\* the try block only, not in a finally clause.
RunSyncFinally_OnSuccessOnly(t) ==
    /\ tasks[t].pc \in {"finally_ok", "finally_err"}
    /\ sync_status' = [sync_status EXCEPT
            !.running = IF tasks[t].pc = "finally_ok" THEN FALSE ELSE @]
    /\ tasks' = [tasks EXCEPT ![t].pc = IF @ = "finally_ok" THEN "completed"
                                        ELSE "failed"]
    /\ UNCHANGED <<index, config, post_limit, posts>>
    /\ UNCHANGED <<chunkVars, chatVars, loadVars, settingsVars>>

\* finally (lines 73-74)
RunSyncFinally(t) ==
    /\ tasks[t].pc \in {"finally_ok", "finally_err"}
    /\ sync_status' = [sync_status EXCEPT !.running = FALSE]
    /\ tasks' = [tasks EXCEPT ![t].pc = IF @ = "finally_ok" THEN "completed"
                                        ELSE "failed"]
    /\ UNCHANGED <<index, config, post_limit, posts>>
    /\ UNCHANGED <<chunkVars, chatVars, loadVars, settingsVars>>

\* get_sync_status (lines 96-111): the answer of GET /sync/status.
get_sync_status(status) ==
    IF status.running
    THEN [status |-> "running", message |-> status.message, stats |-> None]
    ELSE [status |-> "idle", message |-> status.message, stats |-> status.stats]

\* The totals of the page loop (lines 44-56) over the pages.
RECURSIVE Totals(_)
Totals(pages) ==
    IF pages = << >> THEN [chunks |-> 0, images |-> 0]
    ELSE LET rest == Totals(Tail(pages))
         IN  [chunks |-> Len(chunk_page(pages[1], DefaultChunkSize,
                                        DefaultChunkOverlap)) + rest.chunks,
              images |-> Len(collect_images(pages[1].blocks)) + rest.images]

\* _sync_status as a _run_sync call that succeeded on the pages left it
\* (lines 61-74).
StatusAfterSync(pages) ==
    [running |-> FALSE, message |-> "done",
     stats |-> Some([pages |-> Len(pages), chunks |-> Totals(pages).chunks,
                     images |-> Totals(pages).images])]

\* Is _run_sync executing in task t?
Executing(t) == tasks[t].pc \notin {"scheduled", "completed", "failed"}

RECURSIVE SeqsUpTo(_, _)
SeqsUpTo(S, n) ==
    IF n = 0 THEN { << >> }
    ELSE LET shorter == SeqsUpTo(S, n - 1)
         IN  shorter \cup { Append(q, x) : q \in shorter, x \in S }

NextSync ==
    \/ start_sync
    \/ \E t \in DOMAIN tasks : RunSyncStart(t)
    \/ \E t \in DOMAIN tasks : RunSyncClear(t)
    \/ \E t \in DOMAIN tasks : RunSyncLoad(t)
    \/ \E t \in DOMAIN tasks : RunSyncImage(t)
    \/ \E t \in DOMAIN tasks : RunSyncChunk(t)
    \/ \E t \in DOMAIN tasks : RunSyncStats(t)
    \/ \E t \in DOMAIN tasks : RunSyncExcept(t)
    \/ \E t \in DOMAIN tasks : RunSyncFinally(t)

---------------------------------------------------------------------------
\* POST /chat: RAGChain.chat and RAGChain.chat_with_history.

\* Largest number of search results returned for a question.
MaxResults == 2

\* The fixed answer of RAGChain.chat when the search finds nothing.
Apology == "no related information was found in the documents"

\* Context used by chat_with_history when the search finds nothing.
NoContext == "no related information"

SearchResult(text, title, image_paths, score) ==
    [text |-> text, page_title |-> title, page_url |-> <<"https://notion.so/", title>>,
     image_paths |-> image_paths, score |-> score]

\* Chunks the index may return; score = 1 - distance, in hundredths.
Results ==
    { SearchResult("t1", "A", <<"i1">>, 90),
      SearchResult("t2", "A", <<"i1", "i2">>, 70),
      SearchResult("t3", "B", << >>, 50) }

\* Retriever.retrieve: ranked by descending score.
ResultLists ==
    { r \in SeqsUpTo(Results, MaxResults) :
        \A i \in 1..(Len(r) - 1) : r[i].score > r[i + 1].score }

Histories ==
    { << >>,
      <<[role |-> "user", content |-> "earlier question"]>>,
      <<[role |-> "user", content |-> "earlier question"],
        [role |-> "assistant", content |-> "earlier answer"]>> }

Questions == {"q1", "q2"}

\* response.choices[0].message.content: a text or None.
LlmContents == {None, Some("generated answer")}

\* format_context
format_context(results) ==
    [i \in 1..Len(results) |-> <<"info", i, results[i].page_title, results[i].text>>]

\* RAG_PROMPT_TEMPLATE.format(context=..., question=...)
UserPrompt(context, question) ==
    [role |-> "user", content |-> <<"prompt", context, question>>]

SystemMessage == [role |-> "system", content |-> "SYSTEM_PROMPT"]

RECURSIVE extend_image_paths(_)
extend_image_paths(results) ==
    IF results = << >> THEN << >>
    ELSE results[1].image_paths \o extend_image_paths(Tail(results))

Range(q) == { q[i] : i \in DOMAIN q }

\* list(set(paths)): the distinct paths, in an order Python does not fix.
ListsOfSet(S) ==
    { q \in [1..Cardinality(S) -> S] : Range(q) = S }

\* Faulty variant of list_set: the collected paths are returned as they are,
\* without removing duplicates.
list_set_Keep(all_image_paths) == { all_image_paths }

\* list(set(all_image_paths)) (chain.py lines 82, 139)
list_set(all_image_paths) == ListsOfSet(Range(all_image_paths))

\* Faulty variant of Sources: one entry per page, the results of a page
\* merged into its best-ranked one.
Sources_MergedByPage(results) ==
    LET first == SelectSeq([i \in 1..Len(results) |-> i],
                           LAMBDA i : \A j \in 1..(i - 1) :
                               results[j].page_title # results[i].page_title)
    IN  [k \in 1..Len(first) |->
            [page_title |-> results[first[k]].page_title,
             page_url |-> results[first[k]].page_url,
             score |-> results[first[k]].score]]

\* sources (chain.py lines 70-77, 127-134)
Sources(results) ==
    [i \in 1..Len(results) |->
        [page_title |-> results[i].page_title, page_url |-> results[i].page_url,
         score |-> results[i].score]]

ChatResponse(answer, sources, image_paths) ==
    [answer |-> answer, sources |-> sources, image_paths |-> image_paths]

\* The answer built after the completion returns (chain.py lines 62-83, 119-140).
Generated(content, results, image_paths) ==
    ChatResponse(IF content = None THEN "" ELSE content[1], Sources(results),
                 image_paths)

\* RAGChain.chat (lines 30-83): the response and the completion calls made.
RagChat(question, results, content, image_paths) ==
    IF results = << >>
    THEN [response |-> ChatResponse(Apology, << >>, << >>), calls |-> << >>]
    ELSE [response |-> Generated(content, results, image_paths),
          calls |-> << <<SystemMessage,
                         UserPrompt(format_context(results), question)>> >>]

\* RAGChain.chat_with_history (lines 85-140).
RagChatWithHistory(question, history, results, content, image_paths) ==
    LET context == IF results # << >> THEN format_context(results) ELSE NoContext
        messages == <<SystemMessage>> \o history \o <<UserPrompt(context, question)>>
    IN  [response |-> Generated(content, results, image_paths),
         calls |-> <<messages>>]

\* The route chat (src/src/api/routes/chat.py lines 26-40).
ChatRoute(request, results, content, image_paths) ==
    IF request.history # << >>
    THEN RagChatWithHistory(request.message, request.history, results, content,
                            image_paths)
    ELSE RagChat(request.message, results, content, image_paths)

\* One POST /chat request, served to completion.
ChatPost ==
    \E q \in Questions, h \in Histories, results \in ResultLists,
       content \in LlmContents :
        \E image_paths \in list_set(extend_image_paths(results)) :
            LET request == [message |-> q, history |-> h]
                out == ChatRoute(request, results, content, image_paths)
            IN  /\ chat_request' = Some(request)
                /\ search_results' = results
                /\ chat_response' = Some(out.response)
                /\ llm_calls' = out.calls
                /\ UNCHANGED <<chunkVars, syncVars, loadVars, settingsVars>>

NextChat == ChatPost

\* RAGChain.__init__: top_k = 5.
TopK == 5

\* One entry of the list VectorStore.search builds (lines 75-90) from a
\* stored chunk and its score.
SearchResultOf(chunk, score) ==
    [text |-> chunk.text, page_title |-> chunk.page_title,
     page_url |-> chunk.page_url, image_paths |-> chunk.image_paths,
     score |-> score]

\* VectorStore.search (lines 63-92) on the stored chunks: the top_k nearest
\* chunks, nearest first. Which chunks are nearest to a question is the
\* embedding model's matter: every ranking is possible; the score of rank i
\* is written 100 - 10 * i, only the order of the scores being used.
search(idx, top_k) ==
    LET n == IF Count(idx) < top_k THEN Count(idx) ELSE top_k
    IN  { [i \in 1..n |-> SearchResultOf(idx[q[i]], 100 - 10 * i)] :
            q \in { r \in [1..n -> DOMAIN idx] :
                        \A i, j \in 1..n : i # j => r[i] # r[j] } }

\* What _run_sync (lines 47-59) puts into the index for the pages when no
\* image of them can be downloaded (process_image then leaves them as they
\* are).
RECURSIVE IndexOfPages(_, _)
IndexOfPages(idx, pages) ==
    IF pages = << >> THEN idx
    ELSE IndexOfPages(add_chunks(idx, chunk_page(pages[1], DefaultChunkSize,
                                                 DefaultChunkOverlap)),
                      Tail(pages))

\* One POST /chat request without history, served to completion on the
\* index as it is: RAGChain() opens the collection, retrieve searches it.
ChatOverIndex ==
    /\ chat_request = None
    /\ \E results \in search(index, TopK), content \in LlmContents :
        \E image_paths \in list_set(extend_image_paths(results)) :
            LET request == [message |-> "q1", history |-> << >>]
                out == ChatRoute(request, results, content, image_paths)
            IN  /\ chat_request' = Some(request)
                /\ search_results' = results
                /\ chat_response' = Some(out.response)
                /\ llm_calls' = out.calls
    /\ UNCHANGED <<chunkVars, syncVars, loadVars, settingsVars>>

\* POST /sync, the _run_sync calls and POST /chat on one server.
NextSyncChat ==
    \/ start_sync
    \/ \E t \in DOMAIN tasks : RunSyncStart(t)
    \/ \E t \in DOMAIN tasks : RunSyncClear(t)
    \/ \E t \in DOMAIN tasks : RunSyncLoad(t)
    \/ \E t \in DOMAIN tasks : RunSyncImage(t)
    \/ \E t \in DOMAIN tasks : RunSyncChunk(t)
    \/ \E t \in DOMAIN tasks : RunSyncStats(t)
    \/ \E t \in DOMAIN tasks : RunSyncExcept(t)
    \/ \E t \in DOMAIN tasks : RunSyncFinally(t)
    \/ ChatOverIndex

---------------------------------------------------------------------------
\* NotionLoader (src/src/notion/loader.py): raw records of the Notion API.
\* A character of a URL is a one-character string, or a longer string that
\* stands for a run of characters other than "/" and "-".

\* Longest final path segment of a drawn page URL, in characters.
MaxSegment == 3
\* Largest number of rich-text items of a drawn title property.
MaxTitleItems == 2

\* str.rstrip(c)
RECURSIVE rstrip_char(_, _)
rstrip_char(s, c) ==
    IF s # << >> /\ s[Len(s)] = c THEN rstrip_char(SubSeq(s, 1, Len(s) - 1), c) ELSE s

\* str.split(sep) with a separator: always at least one part.
RECURSIVE split(_, _)
split(s, sep) ==
    IF \A i \in 1..Len(s) : s[i] # sep THEN <<s>>
    ELSE LET i == CHOOSE k \in 1..Len(s) :
                      s[k] = sep /\ \A j \in 1..(k - 1) : s[j] # sep
         IN  <<SubSeq(s, 1, i - 1)>> \o split(SubSeq(s, i + 1, Len(s)), sep)

\* "".join(item.get("plain_text", "") for item in items)
RECURSIVE plain_text(_)
plain_text(items) ==
    IF items = << >> THEN << >>
    ELSE (IF items[1].plain_text = None THEN << >> ELSE items[1].plain_text[1])
         \o plain_text(Tail(items))

Untitled == <<"U", "n", "t", "i", "t", "l", "e", "d">>

\* Lines 49-54: the first title-typed property with a non-empty text.
RECURSIVE TitleOfTyped(_)
TitleOfTyped(properties) ==
    IF properties = << >> THEN << >>
    ELSE LET prop == properties[1]
             title == IF prop.type = Some("title") /\ prop.title # None
                      THEN plain_text(prop.title[1]) ELSE << >>
         IN  IF prop.type = Some("title") /\ title # << >> THEN title
             ELSE TitleOfTyped(Tail(properties))

\* Lines 57-63: the property named "title", when it has a "title" entry.
TitleOfNamed(properties) ==
    LET named == SelectSeq(properties, LAMBDA prop : prop.name = "title")
    IN  IF named # << >> /\ named[Len(named)].title # None
        THEN plain_text(named[Len(named)].title[1])
        ELSE << >>

\* Lines 66-72: the title derived from the URL; None when the code falls
\* through to the literal.
TitleFromUrl(url) ==
    IF url # << >>
    THEN LET segments == split(rstrip_char(url, "/"), "/")
             parts == split(segments[Len(segments)], "-")
         IN  IF Len(parts) > 1
             THEN Some(Join(SubSeq(parts, 1, Len(parts) - 1), <<"-">>))
             ELSE None
    ELSE None

\* NotionLoader._extract_title
_extract_title(raw) ==
    LET properties == raw.properties
        url == IF raw.url = None THEN << >> ELSE raw.url[1]
    IN  IF TitleOfTyped(properties) # << >> THEN TitleOfTyped(properties)
        ELSE IF TitleOfNamed(properties) # << >> THEN TitleOfNamed(properties)
        ELSE IF TitleFromUrl(url) # None THEN TitleFromUrl(url)[1]
        ELSE Untitled

\* Rich-text items of a title.
TitleItems ==
    { [plain_text |-> None], [plain_text |-> Some(<< >>)],
      [plain_text |-> Some(<<"N">>)] }

\* A property value of a page record: its name, "type" and "title" entries.
Property(name, type, title) == [name |-> name, type |-> type, title |-> title]

\* The properties of a page of a database (title property "Name"), of a
\* standalone page (title property "title"), or none.
PropertyLists ==
    { << >> }
    \cup { <<Property("title", Some("title"), Some(items))>> :
               items \in SeqsUpTo(TitleItems, MaxTitleItems) }
    \cup { <<Property("Tags", Some("multi_select"), None),
             Property("Name", Some("title"), Some(items))>> :
               items \in SeqsUpTo(TitleItems, MaxTitleItems) }

\* Page URLs: a host, then a final segment over "T", "i" and "-", with or
\* without a trailing slash; or no "url" entry.
PageUrls ==
    { None }
    \cup { Some(<<"https:", "/", "/", "notion.so", "/">> \o seg \o tail) :
               seg \in SeqsUpTo({"T", "i", "-"}, MaxSegment),
               tail \in { << >>, <<"/">> } }

RawPages == { [properties |-> ps, url |-> u] : ps \in PropertyLists, u \in PageUrls }

\* The call of _extract_title on a raw page record.
ExtractTitle ==
    /\ loader_call = None
    /\ \E raw \in RawPages :
        loader_call' = Some([symbol |-> "_extract_title", arg |-> raw,
                             result |-> _extract_title(raw)])
    /\ UNCHANGED image_call
    /\ UNCHANGED <<chunkVars, syncVars, chatVars, settingsVars>>

\* Largest number of blocks of a drawn raw block tree (the block and its
\* descendants).
MaxRawBlocks == 3

\* The values of the enumeration BlockType.
BlockTypeValues ==
    { "paragraph", "heading_1", "heading_2", "heading_3", "bulleted_list_item",
      "numbered_list_item", "toggle", "code", "quote", "callout", "image",
      "divider", "table", "table_row", "child_page", "child_database",
      "bookmark", "embed", "video", "file", "pdf", "unknown" }

\* Lines 79-84: block.get("type", "unknown"), then BlockType(...), with
\* ValueError caught.
BlockTypeStr(raw) == IF raw.type = None THEN "unknown" ELSE raw.type[1]

BlockTypeOf(raw) ==
    IF BlockTypeStr(raw) \in BlockTypeValues THEN BlockTypeStr(raw) ELSE "unknown"

\* The entry of a raw block under its type string; absent entries are None.
RawContent(rich_text, image_type, url, caption, cells) ==
    [rich_text |-> rich_text, type |-> image_type, url |-> url,
     caption |-> caption, cells |-> cells]

\* block.get(block_type_str, {})
EmptyContent == RawContent(<< >>, "", << >>, << >>, << >>)

BlockContent(raw) == IF raw.content = None THEN EmptyContent ELSE raw.content[1]

\* NotionLoader._extract_image: the caption is always a string.
_extract_image(content) ==
    ImageInfo(IF content.type \in {"external", "file"} THEN content.url ELSE << >>,
              None, None, Some(plain_text(content.caption)))

\* " | ".join(_extract_rich_text(cell) for cell in cells)
RowText(cells) ==
    Join([i \in 1..Len(cells) |-> plain_text(cells[i])], <<SP, "|", SP>>)

\* NotionLoader._extract_table_text
_extract_table_text(raw, block_type) ==
    IF block_type = "table"
    THEN LET children == IF raw.children = None THEN << >> ELSE raw.children[1]
             rows == SelectSeq(children, LAMBDA child : child.type = Some("table_row"))
         IN  Join([i \in 1..Len(rows) |-> RowText(BlockContent(rows[i]).cells)],
                  <<NL>>)
    ELSE RowText(BlockContent(raw).cells)

RECURSIVE _parse_block_LeafUnknown(_)
RECURSIVE _parse_block(_)
\* Faulty variant of _parse_block: the children of a block whose type is not
\* in the enumeration are not parsed.
_parse_block_LeafUnknown(raw) ==
    LET block_type == BlockTypeOf(raw)
        block_content == BlockContent(raw)
    IN  NotionBlock(raw.id, block_type,
            IF block_type = "image" THEN << >>
            ELSE IF block_type \in {"table", "table_row"}
                 THEN _extract_table_text(raw, block_type)
                 ELSE plain_text(block_content.rich_text),
            IF block_type = "image" THEN Some(_extract_image(block_content)) ELSE None,
            IF raw.children # None /\ BlockTypeStr(raw) \in BlockTypeValues
            THEN [i \in 1..Len(raw.children[1]) |->
                      _parse_block_LeafUnknown(raw.children[1][i])]
            ELSE << >>)

\* NotionLoader._parse_block (metadata, which nothing reads, is left out)
_parse_block(raw) ==
    LET block_type == BlockTypeOf(raw)
        block_content == BlockContent(raw)
    IN  NotionBlock(raw.id, block_type,
            IF block_type = "image" THEN << >>
            ELSE IF block_type \in {"table", "table_row"}
                 THEN _extract_table_text(raw, block_type)
                 ELSE plain_text(block_content.rich_text),
            IF block_type = "image" THEN Some(_extract_image(block_content)) ELSE None,
            IF raw.children # None
            THEN [i \in 1..Len(raw.children[1]) |-> _parse_block(raw.children[1][i])]
            ELSE << >>)

\* Raw blocks drawn: their "type" entry and the entry under that type.
RichText(chars) == <<[plain_text |-> Some(chars)]>>

RawKinds ==
    { [type |-> Some("paragraph"),
       content |-> Some(RawContent(RichText(<<"a">>), "", << >>, << >>, << >>))],
      [type |-> Some("heading_1"),
       content |-> Some(RawContent(RichText(<<"h">>), "", << >>, << >>, << >>))],
      [type |-> Some("image"),
       content |-> Some(RawContent(<< >>, "external", U1, RichText(<<"c">>), << >>))],
      [type |-> Some("table"), content |-> Some(EmptyContent)],
      [type |-> Some("table_row"),
       content |-> Some(RawContent(<< >>, "", << >>, << >>,
                                   <<RichText(<<"x">>), RichText(<<"y">>)>>))],
      [type |-> Some("column_list"), content |-> Some(EmptyContent)],
      [type |-> None, content |-> None] }

\* Forests of exactly n raw blocks nested at most d deep, before ids are
\* given.
RECURSIVE RawForests(_, _)
RawForests(n, d) ==
    IF n = 0 THEN { << >> }
    ELSE IF d < 0 THEN { }
    ELSE UNION { { <<[kind |-> k, children |-> kids]>> \o rest :
                       k \in RawKinds,
                       kids \in RawForests(m - 1, d - 1),
                       rest \in RawForests(n - m, d) } : m \in 1..n }

\* Raw records: the id is the path of the block; a block without children
\* has no "children" entry (has_children is false).
RECURSIVE RawWithIds(_, _)
RawWithIds(forest, path) ==
    [i \in 1..Len(forest) |->
        [id |-> path \o <<i>>, type |-> forest[i].kind.type,
         content |-> forest[i].kind.content,
         children |-> IF forest[i].children = << >> THEN None
                      ELSE Some(RawWithIds(forest[i].children, path \o <<i>>))]]

RawBlocks ==
    UNION { { RawWithIds(f, << >>)[1] :
                  f \in { g \in RawForests(n, MaxDepth) : Len(g) = 1 } } :
                n \in 1..MaxRawBlocks }

\* The call of _parse_block on a raw block.
ParseBlock ==
    /\ loader_call = None
    /\ \E raw \in RawBlocks :
        loader_call' = Some([symbol |-> "_parse_block", arg |-> raw,
                             result |-> _parse_block(raw)])
    /\ UNCHANGED image_call
    /\ UNCHANGED <<chunkVars, syncVars, chatVars, settingsVars>>

---------------------------------------------------------------------------
\* ImageProcessor.process_image, step by step.

\* image_call before process_image is called.
NoImageCall ==
    [pc |-> "idle", given |-> None, image |-> None, calls |-> << >>,
     raised |-> FALSE, returned |-> None]

\* The ImageInfo of a parsed image block: _extract_image sets url and caption
\* only; a caption of None is the dataclass default.
ParsedImages ==
    { ImageInfo(url, None, None, caption) :
          url \in { << >>, U1 }, caption \in { None, Some(<< >>), Some(<<"c">>) } }

\* process_image is called (lines 24-27): an image without a URL is returned
\* at once.
ProcessImageCall ==
    /\ image_call.pc \in {"idle", "returned"}
    /\ \E image \in ParsedImages :
        image_call' =
            [pc |-> IF image.url = << >> THEN "returned" ELSE "download",
             given |-> Some(image), image |-> Some(image), calls |-> << >>,
             raised |-> FALSE,
             returned |-> IF image.url = << >> THEN Some(image) ELSE None]
    /\ UNCHANGED loader_call
    /\ UNCHANGED <<chunkVars, syncVars, chatVars, settingsVars>>

\* Faulty variant of DownloadImage: when the download fails, the caption is
\* stored as the description before the image is returned.
DownloadImage_DescribesAnyway ==
    /\ image_call.pc = "download"
    /\ \E outcome \in ImageOutcomes :
        LET image == image_call.image[1]
            local_path == _download_image(image.url, outcome)
            calls == Append(image_call.calls,
                            [symbol |-> "_download_image",
                             failed |-> outcome = "fail"])
            captioned == [image EXCEPT
                             !.description = Some(IF image.caption # None
                                                  THEN image.caption[1] ELSE << >>)]
        IN  image_call' =
                IF local_path.value = None
                THEN [image_call EXCEPT !.pc = "returned", !.calls = calls,
                                        !.image = Some(captioned),
                                        !.returned = Some(captioned)]
                ELSE [image_call EXCEPT
                         !.pc = "describe", !.calls = calls,
                         !.image = Some([image EXCEPT
                                            !.local_path = local_path.value])]
    /\ UNCHANGED loader_call
    /\ UNCHANGED <<chunkVars, syncVars, chatVars, settingsVars>>

\* local_path = self._download_image(image.url) (lines 30-34)
DownloadImage ==
    /\ image_call.pc = "download"
    /\ \E outcome \in ImageOutcomes :
        LET image == image_call.image[1]
            local_path == _download_image(image.url, outcome)
            calls == Append(image_call.calls,
                            [symbol |-> "_download_image",
                             failed |-> outcome = "fail"])
        IN  image_call' =
                IF local_path.raised
                THEN [image_call EXCEPT !.pc = "returned", !.calls = calls,
                                        !.raised = TRUE]
                ELSE IF local_path.value = None
                THEN [image_call EXCEPT !.pc = "returned", !.calls = calls,
                                        !.returned = Some(image)]
                ELSE [image_call EXCEPT
                         !.pc = "describe", !.calls = calls,
                         !.image = Some([image EXCEPT
                                            !.local_path = local_path.value])]
    /\ UNCHANGED loader_call
    /\ UNCHANGED <<chunkVars, syncVars, chatVars, settingsVars>>

\* description = self._generate_description(...) and the return (lines 37-40)
GenerateDescription ==
    /\ image_call.pc = "describe"
    /\ \E outcome \in ImageOutcomes \ {"fail"} :
        LET image == image_call.image[1]
            description == _generate_description(image.caption, outcome)
            calls == Append(image_call.calls,
                            [symbol |-> "_generate_description",
                             failed |-> outcome = "describe_fail"])
            described == [image EXCEPT !.description = Some(description.value)]
        IN  image_call' =
                IF description.raised
                THEN [image_call EXCEPT !.pc = "returned", !.calls = calls,
                                        !.raised = TRUE]
                ELSE [image_call EXCEPT !.pc = "returned", !.calls = calls,
                                        !.image = Some(described),
                                        !.returned = Some(described)]
    /\ UNCHANGED loader_call
    /\ UNCHANGED <<chunkVars, syncVars, chatVars, settingsVars>>

NextLoad ==
    \/ ExtractTitle
    \/ ParseBlock
    \/ ProcessImageCall
    \/ DownloadImage
    \/ GenerateDescription

---------------------------------------------------------------------------
\* GET /settings and POST /settings (src/src/api/routes/settings.py).

\* Longest secret drawn, in characters.
MaxSecretLen == 10

\* The three keys the endpoint edits, all without a value.
NoEnvFile == [NOTION_TOKEN |-> << >>, NOTION_PAGE_IDS |-> << >>, OPENAI_API_KEY |-> << >>]

\* "*" * n
Stars(n) == [i \in 1..n |-> "*"]

\* _mask_secret (lines 62-66)
_mask_secret(value) ==
    IF value = << >> \/ Len(value) < 10
    THEN IF value # << >> THEN Stars(Len(value)) ELSE << >>
    ELSE SubSeq(value, 1, 6) \o Stars(Len(value) - 10)
         \o SubSeq(value, Len(value) - 3, Len(value))

\* _read_env_file (lines 32-41): the values of the keys, stripped.
_read_env_file(file) == [key \in DOMAIN file |-> strip(file[key])]

\* The SettingsResponse both handlers build from env_vars (lines 77-83,
\* 114-120).
SettingsResponse(env_vars) ==
    [notion_token |-> _mask_secret(env_vars.NOTION_TOKEN),
     notion_page_ids |-> env_vars.NOTION_PAGE_IDS,
     openai_api_key |-> _mask_secret(env_vars.OPENAI_API_KEY),
     notion_token_set |->
        /\ env_vars.NOTION_TOKEN # << >>
        /\ env_vars.NOTION_TOKEN # <<"s", "e", "c", "r", "e", "t", "_", "x", "x", "x">>,
     openai_api_key_set |->
        /\ env_vars.OPENAI_API_KEY # << >>
        /\ ~StartsWith(env_vars.OPENAI_API_KEY, <<"s", "k", "-", "x", "x", "x">>)]

\* Secrets drawn: the first n characters of a token.
TokenChars == <<"s", "e", "c", "r", "e", "t", "_", "1", "2", "3", "4", "5", "6", "7">>

Secrets == { SubSeq(TokenChars, 1, n) : n \in 0..MaxSecretLen }

\* SettingsRequest: each field a string or None.
SettingsRequests ==
    { [notion_token |-> t, notion_page_ids |-> p, openai_api_key |-> k] :
        t \in {None} \cup { Some(x) : x \in Secrets },
        p \in {None, Some(<< >>), Some(<<"p", "1">>)},
        k \in {None} \cup { Some(x) : x \in Secrets } }

\* get_settings (lines 69-83)
get_settings ==
    /\ settings_response' = Some(SettingsResponse(_read_env_file(env_file)))
    /\ UNCHANGED <<env_file, os_environ>>
    /\ UNCHANGED <<chunkVars, syncVars, chatVars, loadVars>>

\* update_settings (lines 86-120): the .env file is rewritten and the
\* process environment updated; the cached Settings object is dropped
\* (cache_clear) and rebuilt from the environment on its next use.
update_settings ==
    \E request \in SettingsRequests :
        LET read == _read_env_file(env_file)
            set(old, new, test) == IF test THEN new[1] ELSE old
            env_vars ==
                [NOTION_TOKEN |-> set(read.NOTION_TOKEN, request.notion_token,
                                      Truthy(request.notion_token)),
                 NOTION_PAGE_IDS |-> set(read.NOTION_PAGE_IDS, request.notion_page_ids,
                                         request.notion_page_ids # None),
                 OPENAI_API_KEY |-> set(read.OPENAI_API_KEY, request.openai_api_key,
                                        Truthy(request.openai_api_key))]
        IN  /\ env_file' = env_vars
            /\ os_environ' =
                  [NOTION_TOKEN |-> set(os_environ.NOTION_TOKEN, request.notion_token,
                                        Truthy(request.notion_token)),
                   NOTION_PAGE_IDS |-> set(os_environ.NOTION_PAGE_IDS,
                                           request.notion_page_ids,
                                           request.notion_page_ids # None),
                   OPENAI_API_KEY |-> set(os_environ.OPENAI_API_KEY,
                                          request.openai_api_key,
                                          Truthy(request.openai_api_key))]
            /\ settings_response' = Some(SettingsResponse(env_vars))
            /\ UNCHANGED <<chunkVars, syncVars, chatVars, loadVars>>

NextSettings ==
    \/ get_settings
    \/ update_settings

---------------------------------------------------------------------------
\* Specifications.

\* The page of the Chunker before any document is drawn.
NoPage == NotionPage(<<"p">>, "Page", "https://notion.so/p", << >>)

NoStatus == [running |-> FALSE, message |-> "", stats |-> None]

NoConfig == [database_ids |-> << >>, page_ids |-> << >>]

\* The Chunker on drawn documents and parameters; no sync, no chat.
InitChunk ==
    /\ page0 \in { NotionPage(<<"p">>, "Page", "https://notion.so/p", d) :
                       d \in Documents(MaxBlocks) }
    /\ chunk_size \in 1..MaxChunkSize
    /\ chunk_overlap \in {0, MaxOverlap}
    /\ page = page0
    /\ pcC = "idle"
    /\ sections = << >>
    /\ section_index = 0
    /\ chunks = << >>
    /\ block_pos = 0
    /\ scan = ScanInit
    /\ split_log = << >>
    /\ first_result = None
    /\ between = FALSE
    /\ caller_repeats = FALSE
    /\ sync_status = NoStatus
    /\ tasks = << >>
    /\ index = EmptyIndex
    /\ config = NoConfig
    /\ posts = << >>
    /\ post_limit = 0
    /\ chat_request = None
    /\ search_results = << >>
    /\ chat_response = None
    /\ llm_calls = << >>
    /\ loader_call = None
    /\ image_call = NoImageCall
    /\ env_file = NoEnvFile
    /\ os_environ = NoEnvFile
    /\ settings_response = None

SpecChunk == InitChunk /\ [][NextChunk]_vars

\* The same Chunker called again and again, on the first document and on
\* another one.
InitRechunk ==
    /\ page0 \in { NotionPage(<<"p">>, "Page", "https://notion.so/p", d) :
                       d \in Documents(MaxRepeatBlocks) }
    /\ chunk_size \in 1..MaxChunkSize
    /\ chunk_overlap \in {0, MaxOverlap}
    /\ page = page0
    /\ pcC = "idle"
    /\ sections = << >>
    /\ section_index = 0
    /\ chunks = << >>
    /\ block_pos = 0
    /\ scan = ScanInit
    /\ split_log = << >>
    /\ first_result = None
    /\ between = FALSE
    /\ caller_repeats = TRUE
    /\ sync_status = NoStatus
    /\ tasks = << >>
    /\ index = EmptyIndex
    /\ config = NoConfig
    /\ posts = << >>
    /\ post_limit = 0
    /\ chat_request = None
    /\ search_results = << >>
    /\ chat_response = None
    /\ llm_calls = << >>
    /\ loader_call = None
    /\ image_call = NoImageCall
    /\ env_file = NoEnvFile
    /\ os_environ = NoEnvFile
    /\ settings_response = None

SpecRechunk == InitRechunk /\ [][NextChunk]_vars

\* The sync endpoint and its background tasks, for every configuration.
InitSync ==
    /\ chunk_size = DefaultChunkSize
    /\ chunk_overlap = DefaultChunkOverlap
    /\ page0 = NoPage
    /\ page = NoPage
    /\ pcC = "idle"
    /\ sections = << >>
    /\ section_index = 0
    /\ chunks = << >>
    /\ block_pos = 0
    /\ scan = ScanInit
    /\ split_log = << >>
    /\ first_result = None
    /\ between = FALSE
    /\ caller_repeats = FALSE
    /\ sync_status = NoStatus
    /\ tasks = << >>
    /\ index = EmptyIndex
    /\ config \in { [database_ids |-> d, page_ids |-> p] :
                        d \in {<< >>, <<"db1">>}, p \in SeqsUpTo(PageIds, MaxPageIds) }
    /\ posts = << >>
    /\ post_limit = MaxPosts
    /\ chat_request = None
    /\ search_results = << >>
    /\ chat_response = None
    /\ llm_calls = << >>
    /\ loader_call = None
    /\ image_call = NoImageCall
    /\ env_file = NoEnvFile
    /\ os_environ = NoEnvFile
    /\ settings_response = None

SpecSync == InitSync /\ [][NextSync]_vars

\* The sync endpoint when the clients send at most MaxRuns requests.
InitSyncRun ==
    /\ chunk_size = DefaultChunkSize
    /\ chunk_overlap = DefaultChunkOverlap
    /\ page0 = NoPage
    /\ page = NoPage
    /\ pcC = "idle"
    /\ sections = << >>
    /\ section_index = 0
    /\ chunks = << >>
    /\ block_pos = 0
    /\ scan = ScanInit
    /\ split_log = << >>
    /\ first_result = None
    /\ between = FALSE
    /\ caller_repeats = FALSE
    /\ sync_status = NoStatus
    /\ tasks = << >>
    /\ index = EmptyIndex
    /\ config \in { [database_ids |-> d, page_ids |-> p] :
                        d \in {<< >>, <<"db1">>}, p \in SeqsUpTo(PageIds, MaxPageIds) }
    /\ posts = << >>
    /\ post_limit = MaxRuns
    /\ chat_request = None
    /\ search_results = << >>
    /\ chat_response = None
    /\ llm_calls = << >>
    /\ loader_call = None
    /\ image_call = NoImageCall
    /\ env_file = NoEnvFile
    /\ os_environ = NoEnvFile
    /\ settings_response = None

SpecSyncRun == InitSyncRun /\ [][NextSync]_vars

\* A step of some _run_sync call through its except or finally clause.
RunSyncUnwind ==
    \E t \in DOMAIN tasks : RunSyncExcept(t) \/ RunSyncFinally(t)

\* The runs of SpecSyncRun in which the worker thread of a _run_sync call
\* is not stopped between a raise and the end of the function: Python runs
\* the except clause and then the finally clause, and neither waits for
\* anything (they assign to the status dictionary).
SpecSyncRunFair == InitSyncRun /\ [][NextSync]_vars /\ WF_vars(RunSyncUnwind)

\* A server started on the persisted index of an earlier sync of the same
\* configuration (the status dictionary is new, the Chroma collection is
\* not), then at most MaxRuns sync requests and one chat request.
InitSyncChat ==
    /\ chunk_size = DefaultChunkSize
    /\ chunk_overlap = DefaultChunkOverlap
    /\ page0 = NoPage
    /\ page = NoPage
    /\ pcC = "idle"
    /\ sections = << >>
    /\ section_index = 0
    /\ chunks = << >>
    /\ block_pos = 0
    /\ scan = ScanInit
    /\ split_log = << >>
    /\ first_result = None
    /\ between = FALSE
    /\ caller_repeats = FALSE
    /\ sync_status = NoStatus
    /\ tasks = << >>
    /\ config \in { [database_ids |-> d, page_ids |-> p] :
                        d \in {<< >>, <<"db1">>}, p \in SeqsUpTo(PageIds, MaxPageIds) }
    /\ index = IndexOfPages(EmptyIndex, load_all_pages(config))
    /\ posts = << >>
    /\ post_limit = MaxRuns
    /\ chat_request = None
    /\ search_results = << >>
    /\ chat_response = None
    /\ llm_calls = << >>
    /\ loader_call = None
    /\ image_call = NoImageCall
    /\ env_file = NoEnvFile
    /\ os_environ = NoEnvFile
    /\ settings_response = None

SpecSyncChat == InitSyncChat /\ [][NextSyncChat]_vars

\* The sync endpoint after a first sync of the configured pages has
\* succeeded (none of their images could be downloaded): its stats are in
\* the status, its chunks in the index; then at most MaxRuns more requests.
InitSyncAgain ==
    /\ chunk_size = DefaultChunkSize
    /\ chunk_overlap = DefaultChunkOverlap
    /\ page0 = NoPage
    /\ page = NoPage
    /\ pcC = "idle"
    /\ sections = << >>
    /\ section_index = 0
    /\ chunks = << >>
    /\ block_pos = 0
    /\ scan = ScanInit
    /\ split_log = << >>
    /\ first_result = None
    /\ between = FALSE
    /\ caller_repeats = FALSE
    /\ config \in { [database_ids |-> d, page_ids |-> p] :
                        d \in {<< >>, <<"db1">>}, p \in SeqsUpTo(PageIds, MaxPageIds) }
    /\ sync_status = StatusAfterSync(load_all_pages(config))
    /\ tasks = << >>
    /\ index = IndexOfPages(EmptyIndex, load_all_pages(config))
    /\ posts = << >>
    /\ post_limit = MaxRuns
    /\ chat_request = None
    /\ search_results = << >>
    /\ chat_response = None
    /\ llm_calls = << >>
    /\ loader_call = None
    /\ image_call = NoImageCall
    /\ env_file = NoEnvFile
    /\ os_environ = NoEnvFile
    /\ settings_response = None

SpecSyncAgain == InitSyncAgain /\ [][NextSync]_vars

\* The chat endpoint over every search result list.
InitChat ==
    /\ chunk_size = DefaultChunkSize
    /\ chunk_overlap = DefaultChunkOverlap
    /\ page0 = NoPage
    /\ page = NoPage
    /\ pcC = "idle"
    /\ sections = << >>
    /\ section_index = 0
    /\ chunks = << >>
    /\ block_pos = 0
    /\ scan = ScanInit
    /\ split_log = << >>
    /\ first_result = None
    /\ between = FALSE
    /\ caller_repeats = FALSE
    /\ sync_status = NoStatus
    /\ tasks = << >>
    /\ index = EmptyIndex
    /\ config = NoConfig
    /\ posts = << >>
    /\ post_limit = 0
    /\ chat_request = None
    /\ search_results = << >>
    /\ chat_response = None
    /\ llm_calls = << >>
    /\ loader_call = None
    /\ image_call = NoImageCall
    /\ env_file = NoEnvFile
    /\ os_environ = NoEnvFile
    /\ settings_response = None

SpecChat == InitChat /\ [][NextChat]_vars

\* The loader's parsing functions and the image annotation, on every drawn
\* raw record.
InitLoad ==
    /\ chunk_size = DefaultChunkSize
    /\ chunk_overlap = DefaultChunkOverlap
    /\ page0 = NoPage
    /\ page = NoPage
    /\ pcC = "idle"
    /\ sections = << >>
    /\ section_index = 0
    /\ chunks = << >>
    /\ block_pos = 0
    /\ scan = ScanInit
    /\ split_log = << >>
    /\ first_result = None
    /\ between = FALSE
    /\ caller_repeats = FALSE
    /\ sync_status = NoStatus
    /\ tasks = << >>
    /\ index = EmptyIndex
    /\ config = NoConfig
    /\ posts = << >>
    /\ post_limit = 0
    /\ chat_request = None
    /\ search_results = << >>
    /\ chat_response = None
    /\ llm_calls = << >>
    /\ loader_call = None
    /\ image_call = NoImageCall
    /\ env_file = NoEnvFile
    /\ os_environ = NoEnvFile
    /\ settings_response = None

SpecLoad == InitLoad /\ [][NextLoad]_vars

\* The settings endpoint on a server started without a .env file.
InitSettings ==
    /\ chunk_size = DefaultChunkSize
    /\ chunk_overlap = DefaultChunkOverlap
    /\ page0 = NoPage
    /\ page = NoPage
    /\ pcC = "idle"
    /\ sections = << >>
    /\ section_index = 0
    /\ chunks = << >>
    /\ block_pos = 0
    /\ scan = ScanInit
    /\ split_log = << >>
    /\ first_result = None
    /\ between = FALSE
    /\ caller_repeats = FALSE
    /\ sync_status = NoStatus
    /\ tasks = << >>
    /\ index = EmptyIndex
    /\ config = NoConfig
    /\ posts = << >>
    /\ post_limit = 0
    /\ chat_request = None
    /\ search_results = << >>
    /\ chat_response = None
    /\ llm_calls = << >>
    /\ loader_call = None
    /\ image_call = NoImageCall
    /\ env_file = NoEnvFile
    /\ os_environ = NoEnvFile
    /\ settings_response = None

SpecSettings == InitSettings /\ [][NextSettings]_vars


---------------------------------------------------------------------------
\* Properties.

\* The background tasks in which _run_sync is executing.
ExecutingTasks == { t \in DOMAIN tasks : Executing(t) }

\* C1: at most one sync run (_run_sync) is executing at any time.
C1_AtMostOneSyncRun == Cardinality(ExecutingTasks) <= 1

\* Number of times the block with this id occurs in the sections.
RECURSIVE CountIn(_, _)
CountIn(blocks, id) ==
    IF blocks = << >> THEN 0
    ELSE (IF blocks[1].id = id THEN 1 ELSE 0) + CountIn(Tail(blocks), id)

\* C2: sectioning loses no content: every block of the tree, at every depth,
\* is placed in exactly one section.
C2_EveryBlockSectioned ==
    pcC # "idle" =>
        \A b \in Range(AllBlocks(page.blocks)) : CountIn(Flatten(sections), b.id) = 1

\* C3: no chunk has empty or whitespace-only text unless it carries an image
\* path.
C3_NoDegenerateChunk ==
    \A i \in DOMAIN chunks :
        IsBlank(chunks[i].text) => chunks[i].image_paths # << >>

\* A page with a whitespace-only paragraph was chunked, and a chunk with empty
\* text and an image path was returned.
C3_Witness ==
    /\ pcC = "done"
    /\ \E b \in Range(Flatten(sections)) : b.text = <<SP>>
    /\ \E i \in DOMAIN chunks :
        chunks[i].text = << >> /\ chunks[i].image_paths # << >>

\* The chunks of section i among cs.
ChunksOf(cs, i) == SelectSeq(cs, LAMBDA c : c.metadata.section_index = i)

\* C4: section_index is non-decreasing across the chunks, and the chunks of
\* each section are those obtained by chunking that section alone, from an
\* empty buffer: nothing is carried from one section into the next.
C4_SectionsIndependent ==
    /\ \A i \in 1..(Len(chunks) - 1) :
        chunks[i].metadata.section_index <= chunks[i + 1].metadata.section_index
    /\ pcC \in {"loop", "done"} =>
        \A i \in 0..(section_index - 1) :
            ChunksOf(chunks, i) =
                _create_chunks_from_section(sections[i + 1], page, i, chunk_size,
                                            chunk_overlap)

\* A page of two sections was chunked with an overlap, both sections gave
\* chunks, and the first section ended with text in its buffer.
C4_Witness ==
    /\ pcC = "done"
    /\ chunk_overlap > 0
    /\ Len(sections) >= 2
    /\ ChunksOf(chunks, 0) # << >>
    /\ ChunksOf(chunks, 1) # << >>
    /\ Len(sections[1]) >= 2

\* The chunks among cs that carry the path.
Carrying(cs, path) == { i \in DOMAIN cs : path \in Range(cs[i].image_paths) }

\* C5 as stated: an image's local path never appears in the image_paths of
\* two different chunks.
C5_PathInOneChunk ==
    \A i, j \in DOMAIN chunks :
        i # j => Range(chunks[i].image_paths) \cap Range(chunks[j].image_paths) = {}

\* The blocks of the sections whose image was downloaded to the path.
BlocksWithPath(path) ==
    { b \in Range(Flatten(sections)) : _get_block_images(b) = <<path>> }

\* C5, amended: each sectioned image-bearing block puts its local path in one
\* chunk and no other chunk inherits it: a path is carried by exactly as many
\* chunks as there are sectioned blocks with that path, so it appears in two
\* chunks only when two image blocks have the same URL.
C5_PathOncePerImageBlock ==
    pcC = "done" =>
        \A url \in {U1, U2} :
            Cardinality(Carrying(chunks, LocalPathOf(url)))
                = Cardinality(BlocksWithPath(LocalPathOf(url)))

\* A page with the same image twice and another image once was chunked: two
\* chunks carry the same path, a third carries the other.
C5_Witness ==
    /\ pcC = "done"
    /\ Cardinality(Carrying(chunks, LocalPathOf(U1))) = 2
    /\ Cardinality(Carrying(chunks, LocalPathOf(U2))) = 1

\* The forced splits of the section being scanned that had a non-empty
\* buffer, under a positive overlap.
OverlapSplits ==
    { k \in DOMAIN split_log : chunk_overlap > 0 /\ split_log[k].before # << >> }

\* C6 as stated: after a forced split that emitted a chunk, the next emitted
\* chunk starts with the last chunk_overlap characters of the flushed content
\* concatenated with the next block's text (read generously: directly, or
\* with the newline that separates blocks in the buffer).
C6_OverlapThenBlock ==
    \A k \in OverlapSplits :
        (split_log[k].emitted /\ split_log[k].next <= Len(scan.chunks)) =>
            LET text == scan.chunks[split_log[k].next].text
                overlap_text == LastChars(split_log[k].before, chunk_overlap)
            IN  \/ StartsWith(text, overlap_text \o split_log[k].block_text)
                \/ StartsWith(text, overlap_text \o <<NL>> \o split_log[k].block_text)

\* The buffer seeded by split k: overlap, newline, block text.
Seed(k) ==
    LastChars(split_log[k].before, chunk_overlap) \o <<NL>> \o split_log[k].block_text

\* C6, amended: after a forced split the next emitted chunk of the section
\* starts with the last chunk_overlap characters of the flushed buffer, a
\* newline and the next block's text, stripped of surrounding whitespace.
C6_OverlapNewlineBlock ==
    \A k \in OverlapSplits :
        split_log[k].next <= Len(scan.chunks) =>
            StartsWith(scan.chunks[split_log[k].next].text, strip(Seed(k)))

\* A forced split emitted a chunk, and the next chunk of the section was
\* emitted with the overlap, a newline and the block's text.
C6_Witness ==
    \E k \in OverlapSplits :
        /\ split_log[k].emitted
        /\ split_log[k].next <= Len(scan.chunks)
        /\ ~IsBlank(LastChars(split_log[k].before, chunk_overlap))
        /\ split_log[k].block_text # << >>
        /\ scan.chunks[split_log[k].next].text = Seed(k)

\* C7: a request whose search returns nothing gets the fixed apology, no
\* sources and no images, and the generation model is not called.
C7_NoResultsApology ==
    (chat_request # None /\ search_results = << >>) =>
        /\ chat_response = Some(ChatResponse(Apology, << >>, << >>))
        /\ llm_calls = << >>

\* C8: after a sync that completes without error (and alone), the index count
\* equals the 'chunks' figure of the sync stats.
C8_CountMatchesStats ==
    \A t \in DOMAIN tasks :
        (Len(tasks) = 1 /\ tasks[t].pc \in {"finally_ok", "completed"}) =>
            /\ sync_status.stats # None
            /\ Count(index) = sync_status.stats[1].chunks

IdsAndTexts(cs) == [i \in DOMAIN cs |-> <<cs[i].id, cs[i].text>>]

\* C9: chunking the first document again on the same Chunker, directly or
\* after another document, returns the same chunk ids and texts.
C9_SameChunksAgain ==
    (pcC = "done" /\ page = page0 /\ first_result # None) =>
        IdsAndTexts(chunks) = IdsAndTexts(first_result[1])

\* The first document was chunked, then another document, then the first
\* again, and it gives chunks in two sections.
C9_Witness ==
    /\ pcC = "done"
    /\ page = page0
    /\ between
    /\ Len(chunks) >= 2
    /\ \E i \in DOMAIN chunks : chunks[i].metadata.section_index = 1

\* C10: the chunk ids of a result are pairwise distinct, and the k-th chunk
\* (from 0) of section i has the id "{page id}_{i}_{k}".
C10_IdsNumbered ==
    /\ \A i, j \in DOMAIN chunks : i # j => chunks[i].id # chunks[j].id
    /\ \A i \in DOMAIN chunks :
        LET si == chunks[i].metadata.section_index
            k == Len(ChunksOf(SubSeq(chunks, 1, i - 1), si))
        IN  chunks[i].id = ChunkId(page.id, si, k)

\* A result with two chunks in section 0 and a chunk in section 1.
C10_Witness ==
    /\ pcC = "done"
    /\ \E i \in DOMAIN chunks : chunks[i].id = ChunkId(page.id, 0, 1)
    /\ \E i \in DOMAIN chunks : chunks[i].id = ChunkId(page.id, 1, 0)

\* The last loader call, when it is a call of the function.
LoaderCalled(symbol) == loader_call # None /\ loader_call[1].symbol = symbol

\* C11: the extracted title of a raw page record is never empty: it is the
\* text of the title-typed property when that is non-empty, otherwise the
\* title derived from the URL's final segment, otherwise "Untitled".
C11_TitleNeverEmpty ==
    LoaderCalled("_extract_title") =>
        LET raw == loader_call[1].arg
            title == loader_call[1].result
            typed == TitleOfTyped(raw.properties)
            derived == TitleFromUrl(IF raw.url = None THEN << >> ELSE raw.url[1])
        IN  /\ title # << >>
            /\ title = IF typed # << >> THEN typed
                       ELSE IF derived # None THEN derived[1]
                       ELSE Untitled

\* The calls process_image has made to the helper.
HelperCalls(symbol) ==
    SelectSeq(image_call.calls, LAMBDA c : c.symbol = symbol)

\* C12: process_image never raises and returns the ImageInfo it was given;
\* when the download fails, local_path and description stay unset and no
\* description call is made; when the description call fails, description
\* is the existing caption, or the empty string if there is none.
C12_ProcessImageReturns ==
    image_call.pc = "returned" =>
        /\ ~image_call.raised
        /\ image_call.returned # None
        /\ image_call.returned = image_call.image
        /\ LET given == image_call.given[1]
               image == image_call.returned[1]
               downloads == HelperCalls("_download_image")
               descriptions == HelperCalls("_generate_description")
           IN  /\ image.url = given.url
               /\ image.caption = given.caption
               /\ (downloads # << >> /\ downloads[1].failed) =>
                      /\ image.local_path = None
                      /\ image.description = None
                      /\ descriptions = << >>
               /\ (descriptions # << >> /\ descriptions[1].failed) =>
                      image.description =
                          Some(IF given.caption # None THEN given.caption[1]
                               ELSE << >>)

\* process_image returned an image with a caption whose download succeeded
\* and whose description call failed: the description is the caption.
C12_Witness ==
    /\ image_call.pc = "returned"
    /\ HelperCalls("_generate_description") # << >>
    /\ HelperCalls("_generate_description")[1].failed
    /\ image_call.given[1].caption = Some(<<"c">>)
    /\ image_call.returned[1].local_path # None
    /\ image_call.returned[1].description = Some(<<"c">>)

\* The children of a raw block: block["children"] when present.
RawChildren(raw) == IF raw.children = None THEN << >> ELSE raw.children[1]

\* The parsed block has the raw block's id, the type the enumeration gives
\* (UNKNOWN for a missing or foreign type string) and, level by level, the
\* raw block's children in the same order.
RECURSIVE SameShape(_, _)
SameShape(raw, block) ==
    /\ block.id = raw.id
    /\ block.type = IF raw.type # None /\ raw.type[1] \in BlockTypeValues
                    THEN raw.type[1] ELSE "unknown"
    /\ Len(block.children) = Len(RawChildren(raw))
    /\ \A i \in 1..Len(RawChildren(raw)) :
        SameShape(RawChildren(raw)[i], block.children[i])

\* C13: block parsing is total and shape-preserving: a missing or foreign
\* type string gives a block of type UNKNOWN, and at every level the parsed
\* block has as many children as the raw record, in the same order.
C13_ParseKeepsShape ==
    LoaderCalled("_parse_block") =>
        SameShape(loader_call[1].arg, loader_call[1].result)

\* A raw block of a type outside the enumeration with two children, one of
\* them without a type, was parsed.
C13_Witness ==
    /\ LoaderCalled("_parse_block")
    /\ loader_call[1].arg.type = Some("column_list")
    /\ Len(RawChildren(loader_call[1].arg)) = 2
    /\ RawChildren(loader_call[1].arg)[2].type = None
    /\ loader_call[1].result.type = "unknown"
    /\ Len(loader_call[1].result.children) = 2

\* The answer of the request served last, when its search returned results.
Answered == chat_request # None /\ chat_response # None /\ search_results # << >>

\* The paths that occur in the image_paths of some search result.
ResultPaths == UNION { Range(search_results[i].image_paths) : i \in DOMAIN search_results }

\* C14: when the search returns results, the answer's image_paths holds
\* every path of any result's image_paths exactly once and nothing else.
C14_ImagePathsOnce ==
    Answered =>
        LET image_paths == chat_response[1].image_paths
        IN  /\ Range(image_paths) = ResultPaths
            /\ \A i, j \in DOMAIN image_paths :
                i # j => image_paths[i] # image_paths[j]

\* Two results share a path and one of them has another: the answer has the
\* two paths, once each.
C14_Witness ==
    /\ Answered
    /\ Len(search_results) = 2
    /\ Range(search_results[1].image_paths) \cap Range(search_results[2].image_paths) # {}
    /\ Len(extend_image_paths(search_results)) = 3
    /\ Len(chat_response[1].image_paths) = 2

\* C15: when the search returns results, the sources list has one entry per
\* search result, in rank order, with that result's page_title, page_url and
\* score; results of the same page are not merged.
C15_SourcePerResult ==
    Answered =>
        LET sources == chat_response[1].sources
        IN  /\ Len(sources) = Len(search_results)
            /\ \A i \in DOMAIN search_results :
                sources[i] = [page_title |-> search_results[i].page_title,
                              page_url |-> search_results[i].page_url,
                              score |-> search_results[i].score]

\* Two results of the same page were found, after a non-empty history: the
\* answer has two sources with that page title and the two scores.
C15_Witness ==
    /\ Answered
    /\ chat_request[1].history # << >>
    /\ Len(search_results) = 2
    /\ search_results[1].page_title = search_results[2].page_title
    /\ Len(chat_response[1].sources) = 2
    /\ chat_response[1].sources[1].score > chat_response[1].sources[2].score

\* The ids of the blocks, in order.
Ids(blocks) == [i \in DOMAIN blocks |-> blocks[i].id]

\* Is a a subsequence of b (the elements of a occur in b in the same order)?
RECURSIVE IsSubsequence(_, _)
IsSubsequence(a, b) ==
    IF a = << >> THEN TRUE
    ELSE IF b = << >> THEN FALSE
    ELSE IF a[1] = b[1] THEN IsSubsequence(Tail(a), Tail(b))
    ELSE IsSubsequence(a, Tail(b))

\* C16: sectioning preserves document order: the sections, concatenated in
\* order, hold the blocks in the relative order of a pre-order, depth-first
\* walk of the tree.
C16_DocumentOrder ==
    pcC # "idle" =>
        IsSubsequence(Ids(Flatten(sections)), Ids(AllBlocks(page.blocks)))

\* A heading occurs among the children of a non-heading block and is
\* followed by a later sibling, which is in the section the heading opened.
C16_Witness ==
    /\ pcC # "idle"
    /\ \E b \in Range(page.blocks) :
        /\ b.type \notin HEADING_TYPES
        /\ Len(b.children) = 2
        /\ b.children[1].type \in HEADING_TYPES
        /\ b.children[2].type \notin HEADING_TYPES
        /\ Len(sections) = 2
        /\ Ids(sections[2]) = <<b.children[1].id, b.children[2].id>>

BlockTexts(section) == [j \in DOMAIN section |-> _get_block_text(section[j])]

\* A section without an image-bearing block whose accumulated buffer (the
\* rendered texts joined with newlines) never exceeds chunk_size.
FitsOneChunk(section) ==
    /\ \A j \in DOMAIN section : _get_block_images(section[j]) = << >>
    /\ \A j \in DOMAIN section :
        Len(Join(SubSeq(BlockTexts(section), 1, j), <<NL>>)) <= chunk_size

\* The texts of the chunks.
Texts(cs) == [i \in DOMAIN cs |-> cs[i].text]

\* C18: a section without an image-bearing block whose buffer never exceeds
\* chunk_size yields one chunk, whose text is the buffer stripped, or no
\* chunk when the buffer is whitespace-only; a document all of whose k
\* sections are such and non-blank yields k chunks, section_index 0..k-1.
C18_SmallSectionOneChunk ==
    pcC \in {"loop", "done"} =>
        /\ \A i \in 0..(section_index - 1) :
            FitsOneChunk(sections[i + 1]) =>
                LET buffer == Join(BlockTexts(sections[i + 1]), <<NL>>)
                IN  Texts(ChunksOf(chunks, i)) =
                        IF IsBlank(buffer) THEN << >> ELSE <<strip(buffer)>>
        /\ (/\ pcC = "done"
            /\ \A i \in DOMAIN sections :
                /\ FitsOneChunk(sections[i])
                /\ ~IsBlank(Join(BlockTexts(sections[i]), <<NL>>)))
            => /\ Len(chunks) = Len(sections)
               /\ \A i \in DOMAIN chunks : chunks[i].metadata.section_index = i - 1

\* A document of two small non-blank sections, the first of two blocks, gave
\* two chunks, the first with the two texts joined by a newline.
C18_Witness ==
    /\ pcC = "done"
    /\ Len(sections) = 2
    /\ Len(sections[1]) = 2
    /\ \A i \in DOMAIN sections :
        FitsOneChunk(sections[i]) /\ ~IsBlank(Join(BlockTexts(sections[i]), <<NL>>))
    /\ Len(chunks) = 2
    /\ Len(chunks[1].text) = 3
    /\ chunks[2].metadata.section_index = 1

\* The section without its j-th block.
Without(section, j) ==
    SubSeq(section, 1, j - 1) \o SubSeq(section, j + 1, Len(section))

\* A block with neither text nor an image description (and no image path).
Contentless(block) == _get_block_text(block) = << >> /\ _get_block_images(block) = << >>

\* C19: a block with neither text nor an image description contributes
\* nothing: the chunks of a section (their number and texts) are those of
\* the section without that block.
C19_EmptyBlockNoEffect ==
    pcC \in {"loop", "done"} =>
        \A i \in 0..(section_index - 1) :
            \A j \in DOMAIN sections[i + 1] :
                Contentless(sections[i + 1][j]) =>
                    Texts(ChunksOf(chunks, i)) =
                        Texts(_create_chunks_from_section(
                                  Without(sections[i + 1], j), page, i, chunk_size,
                                  chunk_overlap))

\* Is a a prefix of b?
IsPrefix(a, b) == Len(a) <= Len(b) /\ SubSeq(b, 1, Len(a)) = a

\* The calls a sync owes its k-th page: process_image on every image of the
\* page, in pre-order document order, then chunk_page.
CallsOwed(pages, k) ==
    LET holders == SelectSeq(AllBlocks(pages[k].blocks), LAMBDA b : b.image # None)
    IN  [i \in 1..Len(holders) |-> Call("process_image", k, holders[i].id)]
        \o <<Call("chunk_page", k, << >>)>>

\* C20: in every sync, for each page, process_image is called once for each
\* image of the page, one call after the other in the pre-order order of
\* page.images, and chunk_page is called on the page only after all of them
\* have returned.
C20_ImagesThenChunk ==
    \A t \in DOMAIN tasks :
        LET calls == tasks[t].calls
        IN  calls # << >> =>
                /\ IsPrefix(calls, CallsOwed(tasks[t].pages, calls[1].page))
                /\ tasks[t].pc = "pages" =>
                       \/ /\ calls[1].page = tasks[t].k + 1
                          /\ Len(calls) = tasks[t].j
                       \/ /\ calls[1].page = tasks[t].k
                          /\ tasks[t].j = 0
                          /\ calls = CallsOwed(tasks[t].pages, tasks[t].k)

\* A sync has processed the two images of its second page, the nested one
\* first, and then chunked the page.
C20_Witness ==
    \E t \in DOMAIN tasks :
        /\ Len(tasks[t].calls) = 3
        /\ tasks[t].calls[1].image = <<1, 1>>
        /\ tasks[t].calls[2].image = <<2>>
        /\ tasks[t].calls[3].symbol = "chunk_page"
        /\ tasks[t].calls[3].page = 2

\* The positions of a _run_sync call after an exception was raised in it.
Aborted == {"except", "finally_err", "failed"}

IndexBefore == IndexOfPages(EmptyIndex, load_all_pages(config))

\* Does the index hold every chunk of every configured page?
IsWhole(idx) == DOMAIN IndexBefore \subseteq DOMAIN idx

\* C22: a chat request served while a _run_sync call is executing searches
\* the index as it was before the sync or an index that holds all chunks of
\* the sync, never an empty or partly filled one.
C22_ChatSeesWholeIndex ==
    [][(chat_request' # chat_request /\ \E t \in DOMAIN tasks : Executing(t))
           => (index = IndexBefore \/ IsWhole(index))]_vars

\* C23: when a _run_sync call has failed, the index holds the chunks it held
\* before the call started.
C23_FailedSyncKeepsIndex ==
    \A t \in DOMAIN tasks : tasks[t].pc = "failed" => index = IndexBefore

\* C27: of the sync status, a failing _run_sync call changes the message and
\* the running flag only. The stats change only in the step that ends the
\* try block of a successful call; the steps of a call in which an exception
\* was raised leave them as they are; and GET /sync/status, asked when such
\* a call has ended, returns the stats stored before its except clause ran.
C27_FailureKeepsStats ==
    /\ [][sync_status'.stats # sync_status.stats =>
            \E t \in DOMAIN tasks :
                /\ tasks[t].pc = "pages" /\ tasks[t].k = Len(tasks[t].pages)
                /\ tasks'[t].pc = "finally_ok"]_vars
    /\ [][\A t \in DOMAIN tasks :
            (tasks[t].pc \in Aborted /\ tasks'[t] # tasks[t]) =>
                /\ sync_status'.stats = sync_status.stats
                /\ tasks'[t].pc = "failed" =>
                       get_sync_status(sync_status').stats = sync_status.stats]_vars

\* A sync that follows a successful one has failed: GET /sync/status still
\* returns the stats of the successful one, with the error message.
C27_Witness ==
    /\ \E t \in DOMAIN tasks : tasks[t].pc = "failed"
    /\ get_sync_status(sync_status).stats # None
    /\ get_sync_status(sync_status).stats[1].pages > 0
    /\ get_sync_status(sync_status).message = "error"

\* A section without an image path whose rendered block texts are each at
\* most chunk_size - chunk_overlap - 1 characters long.
SmallBlocks(section) ==
    \A j \in DOMAIN section :
        /\ _get_block_images(section[j]) = << >>
        /\ Len(_get_block_text(section[j])) <= chunk_size - chunk_overlap - 1

\* C24: for a section without image-bearing blocks whose rendered block
\* texts are each at most chunk_size - chunk_overlap - 1 characters long,
\* every chunk of the section has a text of at most chunk_size characters
\* (stated of each section when its scan has ended).
C24_ChunkTextBounded ==
    (pcC = "loop" /\ section_index > 0) =>
        LET i == section_index - 1
            cs == ChunksOf(chunks, i)
        IN  SmallBlocks(sections[i + 1]) =>
                \A k \in DOMAIN cs : Len(cs[k].text) <= chunk_size

\* A section of such blocks was split under a positive overlap: its second
\* chunk (overlap, newline, block) is exactly chunk_size long.
C24_Witness ==
    /\ pcC = "done"
    /\ chunk_overlap > 0
    /\ Len(sections) = 1
    /\ SmallBlocks(sections[1])
    /\ Len(ChunksOf(chunks, 0)) = 2
    /\ Len(ChunksOf(chunks, 0)[2].text) = chunk_size

\* Does the string occur in the text?
Contains(text, string) ==
    \E i \in 0..(Len(text) - Len(string)) :
        SubSeq(text, i + 1, i + Len(string)) = string

\* C25: no text is lost within a section: the rendered text of every block
\* that has a non-whitespace character occurs, stripped, in the text of a
\* chunk of the section (stated of each section when its scan has ended).
C25_NoTextLost ==
    (pcC = "loop" /\ section_index > 0) =>
        LET i == section_index - 1
            cs == ChunksOf(chunks, i)
        IN  \A j \in DOMAIN sections[i + 1] :
                LET block_text == _get_block_text(sections[i + 1][j])
                IN  ~IsBlank(block_text) =>
                        \E k \in DOMAIN cs : Contains(cs[k].text, strip(block_text))

\* A section of three blocks with text, the last an image block, gave two
\* chunks: one by a forced split at the second block, one at the image.
C25_Witness ==
    /\ pcC = "done"
    /\ Len(sections) = 1
    /\ Len(sections[1]) = 3
    /\ \A j \in 1..3 : ~IsBlank(_get_block_text(sections[1][j]))
    /\ _get_block_images(sections[1][2]) = << >>
    /\ _get_block_images(sections[1][3]) # << >>
    /\ Len(ChunksOf(chunks, 0)) = 2
    /\ Len(chunks) = 2

\* The chunks that the step appends to the chunks of the section scanned.
Emitted == SubSeq(scan'.chunks, Len(scan.chunks) + 1, Len(scan'.chunks))

\* C26: the accumulated image list is empty in every state of the scan, a
\* chunk carries at most one image path, the chunk emitted at an
\* image-bearing block carries that block's local path, and the chunks
\* emitted by a forced split or at the end of the section carry none.
C26_AtMostOnePath ==
    /\ [](/\ scan.current_images = << >>
          /\ \A k \in DOMAIN chunks : Len(chunks[k].image_paths) <= 1
          /\ \A k \in DOMAIN scan.chunks : Len(scan.chunks[k].image_paths) <= 1)
    /\ [][pcC = "scan" =>
            IF block_pos < Len(CurrentSection)
               /\ _get_block_images(CurrentSection[block_pos + 1]) # << >>
            THEN /\ Len(Emitted) = 1
                 /\ Emitted[1].image_paths =
                        <<CurrentSection[block_pos + 1].image[1].local_path[1]>>
            ELSE \A k \in DOMAIN Emitted : Emitted[k].image_paths = << >>]_vars

\* A section with two downloaded images and text after them was scanned:
\* one chunk for each image with its path, and a last chunk without a path.
C26_Witness ==
    /\ pcC = "done"
    /\ Len(chunks) = 3
    /\ chunks[1].image_paths = <<LocalPathOf(U1)>>
    /\ chunks[2].image_paths = <<LocalPathOf(U2)>>
    /\ chunks[3].image_paths = << >>
    /\ Len(sections) = 1

\* The number of places at which the string occurs in the text.
Occurrences(text, string) ==
    Cardinality({ i \in 0..(Len(text) - Len(string)) :
                    SubSeq(text, i + 1, i + Len(string)) = string })

\* The rows of a raw table all of whose children are rows.
IsTableOfRows(raw) ==
    /\ raw.type = Some("table")
    /\ raw.children # None
    /\ \A i \in DOMAIN raw.children[1] :
        /\ raw.children[1][i].type = Some("table_row")
        /\ raw.children[1][i].children = None

\* C28: a table parsed with its row children and chunked as the only block
\* of a page, with chunk_overlap = 0: the cell text of each row occurs once
\* in the concatenated chunk texts of the section (n times for n rows with
\* the same cells).
C28_RowTextOnce ==
    (/\ loader_call # None
     /\ loader_call[1].symbol = "_parse_block"
     /\ IsTableOfRows(loader_call[1].arg)) =>
        LET rows == loader_call[1].arg.children[1]
            pg == NotionPage(<<"p">>, "Page", "https://notion.so/p",
                             <<loader_call[1].result>>)
            cs == chunk_page(pg, DefaultChunkSize, 0)
            text == Join(Texts(ChunksOf(cs, 0)), <<NL>>)
        IN  \A i \in DOMAIN rows :
                LET row_text == RowText(BlockContent(rows[i]).cells)
                IN  Occurrences(text, row_text) =
                        Cardinality({ j \in DOMAIN rows :
                            RowText(BlockContent(rows[j]).cells) = row_text })

\* The secrets of a SettingsResponse with the configured values they mask.
MaskedSecrets ==
    { <<settings_response[1].notion_token, env_file.NOTION_TOKEN>>,
      <<settings_response[1].openai_api_key, env_file.OPENAI_API_KEY>> }

\* C29: GET /settings and POST /settings return, for every configured
\* (non-empty) token or key, a string of the same length that differs from
\* it: the secret is never returned in clear.
C29_SecretsMasked ==
    settings_response # None =>
        \A pair \in MaskedSecrets :
            pair[2] # << >> =>
                /\ Len(pair[1]) = Len(pair[2])
                /\ pair[1] # pair[2]

\* C30: at every point of a process_image call on a freshly parsed image
\* (local_path and description unset), description is set only if
\* local_path is set; an image with an empty URL is returned as it was
\* given, without a download call or a description call.
C30_DescriptionNeedsPath ==
    image_call.image # None =>
        LET given == image_call.given[1]
            image == image_call.image[1]
        IN  /\ image.description # None => image.local_path # None
            /\ given.url = << >> =>
                   /\ image_call.pc = "returned"
                   /\ image_call.returned = Some(given)
                   /\ image_call.calls = << >>

\* process_image has returned an image with both fields set, after one
\* download call and one description call.
C30_Witness ==
    /\ image_call.pc = "returned"
    /\ image_call.returned # None
    /\ image_call.returned[1].local_path = Some(LocalPathOf(U1))
    /\ image_call.returned[1].description = Some(<<"d">>)
    /\ Len(image_call.calls) = 2

====
